---- MODULE Spec2Model ----
(***************************************************************************)
(* Model of the session-pooled extraction pipeline of alfacheck:           *)
(*   - session_manager.py : SessionManager (registry, lock, eviction)      *)
(*   - scraper.py         : process_account, extract_* stages, main        *)
(*   - telegram_bot.py    : process_accounts_batch, process_batch_concurrent*)
(*   - models.py          : AccountData, ProcessingResult                  *)
(***************************************************************************)
EXTENDS Integers, Sequences, FiniteSets, TLC

(* ------------------------------ bounds --------------------------------- *)
\* last minute of the modelled clock
MaxTime == 3
\* max_age_minutes / max_idle_minutes are drawn from {1, MaxCfg}
MaxCfg == 3
\* number of APIClient objects that may be constructed in one behaviour
MaxClients == 2
\* longest submitted account list
MaxAccounts == 5
\* largest configured BATCH_SIZE
MaxBatch == 2
\* longest account list of the runs checked for termination
MaxFairAccounts == 3
\* largest number of days an expiry answer carries
MaxDays == 2
\* largest number of pipelines of one batch that share a username
MaxSameUser == 3
\* longest account list of the runs compared across the two modes
MaxModeAccounts == 3
\* largest retry_count a make_api_request call is entered with
MaxRetryCount == 2

Users == {"u1", "u2"}
Passwords == {"p1", "p2"}
Workers == {"w1", "w2"}

\* error strings returned by APIClient.login
LoginErrors == {"Invalid credentials", "Dashboard verification failed"}
LoginOutcomes == {"ok"} \cup LoginErrors

VARIABLES
    now,            \* datetime.now(), in minutes
    max_age,        \* SessionManager._max_age_minutes
    max_idle,       \* SessionManager._max_idle_minutes
    sessions,       \* SessionManager._sessions : username -> SessionInfo
    lock,           \* SessionManager._lock : holder or "free"
    pc,             \* per worker thread: "idle", "waiting" (blocked on the lock), "login"
    args,           \* per worker: arguments of its current / last call
    client,         \* per worker: the APIClient built by its current call
    ret,            \* outcome of the call that finished last
    nextClient,     \* identity of the next APIClient() object
    invalidated,    \* history: per username, the client whose entry was marked
                    \* invalid and not yet replaced by a finished acquire (0: none)
    lastEvicted,    \* history: usernames removed by the latest _cleanup_sessions
    overlapped,     \* history: per worker, the workers whose call with the
                    \* same credentials was pending together with its own
    accounts,       \* the submitted account list (usernames, one shared password)
    cfgBatchSize,   \* bot_config.BATCH_SIZE
    portal,         \* how the portal answers during the run: "any" or "uniform"
    task,           \* per account: the process_account coroutine
    loop,           \* the coroutine the event loop is executing (0: none)
    runPc,          \* position of process_accounts / process_accounts_batch
    batches,        \* process_accounts_batch: batches (positions in accounts)
    batchNum,       \* process_accounts_batch: batch_num
    batchResults,   \* process_batch_concurrent: batch_results
    deliverIdx,     \* position of the `for result in batch_results` loop
    results,        \* the run's ProcessingResult
    processedCount, \* process_accounts_batch: processed_count
    allBatchResults,\* process_accounts_batch: all_batch_results
    saved,          \* records handed to db_manager.save_account_results_batch
    runError,       \* message of the exception that ended the run ("" if none)
    batchesStarted, \* history: number of process_batch_concurrent calls
    delays,         \* history: number of asyncio.sleep(BATCH_DELAY) calls
    futures,        \* scraper.main: state of each executor future
    userSession,    \* the caller's active database UserSession row
    hpc,            \* per run request: position of its handle_message call
    tpc,            \* per run request: position of its _process_user_accounts task
    activeTask,     \* TelegramAlfaBot._active_tasks[user_id] ("none": no entry)
    reply,          \* per run request: the message its handler answered with
    csv,            \* the final CSV file: whether it was opened, and its rows
    events,         \* messages sent to the caller about the run's progress
    call,           \* one make_api_request call of the expiry stage
    reported,       \* per run request: its ProcessingRequest row and the
                    \* completions reported for its transaction and request
    admitted        \* history: runs admitted since the hour window began

smVars == <<now, max_age, max_idle, sessions, lock, pc, args, client, ret,
            nextClient, invalidated, lastEvicted, overlapped>>

runVars == <<accounts, cfgBatchSize, portal, task, loop, runPc, batches, batchNum,
             batchResults, deliverIdx, results, processedCount, allBatchResults,
             saved, runError, batchesStarted, delays, futures,
             userSession, hpc, tpc, activeTask, reply, csv, events, call,
             reported, admitted>>

admVars == <<userSession, hpc, tpc, activeTask, reply>>

vars == <<now, max_age, max_idle, sessions, lock, pc, args, client, ret,
          nextClient, invalidated, lastEvicted, overlapped,
          accounts, cfgBatchSize, portal, task, loop, runPc, batches, batchNum,
          batchResults, deliverIdx, results, processedCount, allBatchResults,
          saved, runError, batchesStarted, delays, futures,
          userSession, hpc, tpc, activeTask, reply, csv, events, call,
          reported, admitted>>

(* ------------------------------ the call ------------------------------ *)
\* no make_api_request call is followed
NoCall == [pc |-> "off"]

(* --------------------------- SessionInfo ------------------------------- *)
SessionInfo(c, u, p, t) ==
    [client |-> c, username |-> u, password |-> p,
     login_time |-> t, last_used |-> t, is_valid |-> TRUE]

IsExpired(info, t, maxAgeMinutes) == t - info.login_time > maxAgeMinutes

IsIdle_OffByOne(info, t, maxIdleMinutes) == t - info.last_used >= maxIdleMinutes

IsIdle(info, t, maxIdleMinutes) == t - info.last_used > maxIdleMinutes

(* ------------------------- SessionManager ------------------------------ *)
Remove(regs, names) == [u \in (DOMAIN regs) \ names |-> regs[u]]

\* usernames _cleanup_sessions puts in to_remove
ToRemove_MissingNot(regs, t) ==
    {u \in DOMAIN regs : \/ IsExpired(regs[u], t, max_age)
                         \/ IsIdle(regs[u], t, max_idle)
                         \/ regs[u].is_valid}

ToRemove(regs, t) ==
    {u \in DOMAIN regs : \/ IsExpired(regs[u], t, max_age)
                         \/ IsIdle(regs[u], t, max_idle)
                         \/ ~regs[u].is_valid}

CleanupSessions(regs, t) == Remove(regs, ToRemove(regs, t))

\* a reuse test that does not compare the stored password
CanReuse_IgnoresPassword(info, t, p) ==
    /\ ~IsExpired(info, t, max_age)
    /\ info.is_valid

\* the reuse test of get_or_create_session
CanReuse(info, t, p) ==
    /\ ~IsExpired(info, t, max_age)
    /\ info.is_valid
    /\ info.password = p

NoRet == [caller |-> "", kind |-> "none", client |-> 0, is_new |-> FALSE, error |-> ""]
OkRet(w, c, isNew) ==
    [caller |-> w, kind |-> "ok", client |-> c, is_new |-> isNew, error |-> ""]
ErrRet_NoReason(w, reason) ==
    [caller |-> w, kind |-> "raise", client |-> 0, is_new |-> FALSE,
     error |-> "Login failed"]

ErrRet(w, reason) ==
    [caller |-> w, kind |-> "raise", client |-> 0, is_new |-> FALSE,
     error |-> "Login failed: " \o reason]

\* the registry holds an entry for u that a call with password p would reuse
Usable(regs, u, p) ==
    /\ u \in DOMAIN regs
    /\ regs[u].is_valid
    /\ regs[u].password = p
    /\ now - regs[u].login_time <= max_age
    /\ now - regs[u].last_used <= max_idle

\* a worker that is not inside a call has no arguments
NoArgs == [username |-> "", password |-> ""]

Pending(w) == pc[w] # "idle"

\* a thread calls get_or_create_session(u, p) and blocks on the lock
Call(w, u, p) ==
    /\ pc[w] = "idle"
    /\ nextClient <= MaxClients
    /\ pc' = [pc EXCEPT ![w] = "waiting"]
    /\ args' = [args EXCEPT ![w] = [username |-> u, password |-> p]]
    /\ LET same == {v \in Workers \ {w} :
                       /\ Pending(v)
                       /\ args[v] = [username |-> u, password |-> p]
                       /\ ~Usable(sessions, u, p)}
       IN overlapped' = [v \in Workers |->
                            IF v = w THEN same
                            ELSE IF v \in same THEN overlapped[v] \cup {w}
                            ELSE overlapped[v] \ {w}]
    /\ UNCHANGED <<now, max_age, max_idle, sessions, lock, client, ret,
                   nextClient, invalidated, lastEvicted>>
    /\ UNCHANGED runVars

\* get_or_create_session with the check-then-create sequence outside the lock
Acquire_NoLock(w) ==
    /\ pc[w] = "waiting"
    /\ LET u == args[w].username
           p == args[w].password
           cleaned == CleanupSessions(sessions, now)
       IN /\ lastEvicted' = ToRemove(sessions, now)
          /\ IF u \in DOMAIN cleaned /\ CanReuse(cleaned[u], now, p)
             THEN /\ sessions' = [cleaned EXCEPT ![u].last_used = now]
                  /\ ret' = OkRet(w, cleaned[u].client, FALSE)
                  /\ pc' = [pc EXCEPT ![w] = "idle"]
                  /\ args' = [args EXCEPT ![w] = NoArgs]
                  /\ invalidated' = [invalidated EXCEPT ![u] = 0]
                  /\ UNCHANGED <<lock, client, nextClient>>
             ELSE /\ sessions' = Remove(cleaned, {u})
                  /\ client' = [client EXCEPT ![w] = nextClient]
                  /\ nextClient' = nextClient + 1
                  /\ lock' = w
                  /\ pc' = [pc EXCEPT ![w] = "login"]
                  /\ UNCHANGED <<ret, args, invalidated>>
    /\ UNCHANGED <<now, max_age, max_idle, overlapped>>
    /\ UNCHANGED runVars

\* lines 56-79: take the lock, clean up, reuse or drop the entry and build a client
Acquire(w) ==
    /\ pc[w] = "waiting"
    /\ lock = "free"
    /\ LET u == args[w].username
           p == args[w].password
           cleaned == CleanupSessions(sessions, now)
       IN /\ lastEvicted' = ToRemove(sessions, now)
          /\ IF u \in DOMAIN cleaned /\ CanReuse(cleaned[u], now, p)
             THEN /\ sessions' = [cleaned EXCEPT ![u].last_used = now]
                  /\ ret' = OkRet(w, cleaned[u].client, FALSE)
                  /\ pc' = [pc EXCEPT ![w] = "idle"]
                  /\ args' = [args EXCEPT ![w] = NoArgs]
                  /\ invalidated' = [invalidated EXCEPT ![u] = 0]
                  /\ UNCHANGED <<lock, client, nextClient>>
             ELSE /\ sessions' = Remove(cleaned, {u})
                  /\ client' = [client EXCEPT ![w] = nextClient]
                  /\ nextClient' = nextClient + 1
                  /\ lock' = w
                  /\ pc' = [pc EXCEPT ![w] = "login"]
                  /\ UNCHANGED <<ret, args, invalidated>>
    /\ UNCHANGED <<now, max_age, max_idle, overlapped>>
    /\ UNCHANGED runVars

\* lines 80-96: client.login returns; register the session or raise
LoginReturn(w, outcome) ==
    /\ pc[w] = "login"
    /\ LET u == args[w].username
           p == args[w].password
       IN IF outcome = "ok"
          THEN /\ sessions' = [v \in (DOMAIN sessions) \cup {u} |->
                                  IF v = u THEN SessionInfo(client[w], u, p, now)
                                  ELSE sessions[v]]
               /\ ret' = OkRet(w, client[w], TRUE)
          ELSE /\ sessions' = sessions
               /\ ret' = ErrRet(w, outcome)
    /\ lock' = "free"
    /\ pc' = [pc EXCEPT ![w] = "idle"]
    /\ args' = [args EXCEPT ![w] = NoArgs]
    /\ client' = [client EXCEPT ![w] = 0]
    /\ invalidated' = [invalidated EXCEPT ![args[w].username] = 0]
    /\ UNCHANGED <<now, max_age, max_idle, nextClient, lastEvicted, overlapped>>
    /\ UNCHANGED runVars

MarkInvalid_Lost(regs, u) == regs

\* an invalidation that drops the entry instead of flagging it
MarkInvalid_Removes(regs, u) == Remove(regs, {u})

MarkInvalid(regs, u) ==
    IF u \in DOMAIN regs THEN [regs EXCEPT ![u].is_valid = FALSE] ELSE regs

InvalidateSession(u) ==
    /\ lock = "free"
    /\ sessions' = MarkInvalid(sessions, u)
    /\ invalidated' = IF u \in DOMAIN sessions
                      THEN [invalidated EXCEPT ![u] = sessions[u].client]
                      ELSE invalidated
    /\ UNCHANGED <<now, max_age, max_idle, lock, pc, args, client, ret,
                   nextClient, lastEvicted, overlapped>>
    /\ UNCHANGED runVars

RemoveSession(u) ==
    /\ lock = "free"
    /\ sessions' = Remove(sessions, {u})
    /\ UNCHANGED <<now, max_age, max_idle, lock, pc, args, client, ret,
                   nextClient, invalidated, lastEvicted, overlapped>>
    /\ UNCHANGED runVars

GetSessionStats ==
    /\ lock = "free"
    /\ sessions' = CleanupSessions(sessions, now)
    /\ lastEvicted' = ToRemove(sessions, now)
    /\ UNCHANGED <<now, max_age, max_idle, lock, pc, args, client, ret,
                   nextClient, invalidated, overlapped>>
    /\ UNCHANGED runVars

ClearAllSessions ==
    /\ lock = "free"
    /\ sessions' = Remove(sessions, DOMAIN sessions)
    /\ UNCHANGED <<now, max_age, max_idle, lock, pc, args, client, ret,
                   nextClient, invalidated, lastEvicted, overlapped>>
    /\ UNCHANGED runVars

\* the wall clock advances
Tick ==
    /\ now < MaxTime
    /\ now' = now + 1
    /\ UNCHANGED <<max_age, max_idle, sessions, lock, pc, args, client, ret,
                   nextClient, invalidated, lastEvicted, overlapped>>
    /\ UNCHANGED runVars

(* --------------------------- AccountData ------------------------------- *)
NF == "Not Found"
AE == "API Error"
VAL == "value"

\* the fields of AccountData other than username, status and error_details
DataFields ==
    {"activation_date", "validity_days_remaining", "current_balance",
     "last_recharge_amount", "last_recharge_date", "service_details",
     "secondary_numbers", "main_consumption", "mobile_internet_consumption",
     "secondary_consumption", "subscription_date", "validity_date"}

\* AccountData(username=u, status=st, error_details=details); error_details is
\* the list of its comma-joined parts, "" being the empty list
AccountData(u, st, details) ==
    [username |-> u, status |-> st, error_details |-> details,
     activation_date |-> NF, validity_days_remaining |-> NF,
     current_balance |-> NF, last_recharge_amount |-> NF,
     last_recharge_date |-> NF, service_details |-> "None",
     secondary_numbers |-> "None", main_consumption |-> NF,
     mobile_internet_consumption |-> NF, secondary_consumption |-> NF,
     subscription_date |-> NF, validity_date |-> NF]

(* ------------------------- ProcessingResult ---------------------------- *)
\* the CSV file after csv.DictWriter wrote the header and the given rows
CsvFile(rows) == [written |-> TRUE, rows |-> rows]
NoCsv == [written |-> FALSE, rows |-> << >>]

ProcessingResult(n) ==
    [total_accounts |-> n, successful |-> 0, partial |-> 0, failed |-> 0,
     results |-> << >>]

\* an object handed to add_result that is not an AccountData
IsAccountData(x) == "status" \in DOMAIN x

AddResult(pr, x) ==
    LET appended == [pr EXCEPT !.results = Append(@, x)]
    IN IF x.status = "Success" THEN [appended EXCEPT !.successful = @ + 1]
       ELSE IF x.status = "Partial Success" THEN [appended EXCEPT !.partial = @ + 1]
       ELSE [appended EXCEPT !.failed = @ + 1]

(* ------------- DatabaseManager: run-level persistence ------------------ *)
\* the request whose run the orchestrator model follows
RunRequest == "r1"

\* no ProcessingRequest row, nothing reported
NoReport == [started |-> FALSE, txn |-> << >>, req |-> << >>]

\* database.py 303-330: the request row is created and the caller's active
\* session row is marked as processing
Opened(rep) == [rep EXCEPT !.started = TRUE]

StartProcessingRequest(us) ==
    IF us.exists THEN [us EXCEPT !.is_processing = TRUE] ELSE us

\* telegram_bot.py 651-664 and 677-692: complete_transaction, then
\* complete_processing_request, both with the same error_message
Completion(rep, status) ==
    [rep EXCEPT !.txn = Append(@, status), !.req = Append(@, status)]

\* database.py 356-365: what complete_processing_request does to the
\* caller's active session row
CompleteProcessingRequest(us, t) ==
    IF us.exists
    THEN [us EXCEPT !.is_processing = FALSE,
                    !.last_request_time = <<t>>,
                    !.request_count_hour = @ + 1]
    ELSE us

(* ----------------- extract_api_data / extract_html_data ----------------- *)
\* answers of the portal to each stage of the pipeline
\* ("session_expired": an HTML body with a successful HTTP status;
\*  "html_error_page": an HTML body with an HTTP error status;
\*  "fetch_error": a timeout or connection error)
Resp1 == {"full", "no_services", "empty_balance", "bad_number", "malformed",
          "fetch_error", "session_expired", "html_error_page"}
Resp2 == {"days", "non_numeric", "fetch_error", "session_expired",
          "html_error_page"}
Resp3 == {"ok", "no_amount", "malformed", "fetch_error", "session_expired",
          "html_error_page"}
Resp4 == {"ushare", "no_ushare", "malformed", "fetch_error", "session_expired",
          "html_error_page"}
Resp5 == {"found", "not_found", "exception"}
Resp6 == {"both", "one", "none", "exception"}

\* a portal that treats one account the same way at every stage
UniformModes == {"healthy", "degraded", "expired"}

Allowed(stage, mode) ==
    IF mode = "any"
    THEN <<Resp1, Resp2, Resp3, Resp4, Resp5, Resp6>>[stage]
    ELSE IF mode = "healthy"
    THEN {<<"full", "days", "ok", "ushare", "found", "both">>[stage]}
    ELSE IF mode = "degraded"
    THEN {<<"fetch_error", "fetch_error", "fetch_error", "fetch_error",
            "exception", "exception">>[stage]}
    ELSE {<<"session_expired", "session_expired", "session_expired",
            "session_expired", "not_found", "none">>[stage]}

\* the process_account coroutine of one account
NewTask(u) ==
    [pc |-> "new", data |-> AccountData(u, "Error", << >>), mode |-> "any",
     errors |-> << >>, session_expired |-> FALSE, raised |-> "",
     html |-> {}, trace |-> << >>, client |-> 0]

FetchFailed(r) == r \in {"fetch_error", "session_expired", "html_error_page"}

\* api_client.py 200-259: APIResponse.error of a call that did not succeed;
\* raise_for_status runs before the test for an HTML body
ApiError(r) ==
    IF r = "session_expired" THEN "Session expired - HTML response received"
    ELSE IF r = "html_error_page"
    THEN "Error fetching from API: 500 Server Error"
    ELSE "Timeout fetching from API"

\* "session" in resp.error.lower()
SignalsExpiry(r) ==
    FetchFailed(r) /\ ApiError(r) = "Session expired - HTML response received"

\* history: the HTTP status of the HTML bodies the JSON calls received
HtmlSeen(r) ==
    IF r = "session_expired" THEN {"ok_status"}
    ELSE IF r = "html_error_page" THEN {"error_status"}
    ELSE {}

NoteExpiry_Overwrites(t, r) ==
    [t EXCEPT !.session_expired = SignalsExpiry(r),
              !.html = @ \cup HtmlSeen(r)]

\* scraper.py 84-87, 188-190, 224-226, 258-260
NoteExpiry(t, r) ==
    [t EXCEPT !.session_expired = @ \/ SignalsExpiry(r),
              !.html = @ \cup HtmlSeen(r)]

ConsumptionError(d) ==
    [d EXCEPT !.current_balance = AE, !.secondary_numbers = AE,
              !.main_consumption = AE, !.mobile_internet_consumption = AE,
              !.secondary_consumption = AE]

\* 1. consumption (scraper.py 75-176)
Stage1(t0, r) ==
    LET t == NoteExpiry(t0, r)
        d == t.data
    IN IF FetchFailed(r)
       THEN [t EXCEPT !.errors = Append(@, "Consumption API Fetch Error"),
                      !.data = ConsumptionError(d)]
       ELSE IF r = "malformed"
       THEN [t EXCEPT !.errors = Append(@, "Consumption API Parse Error"),
                      !.data = ConsumptionError(d)]
       ELSE IF r = "full"
       THEN [t EXCEPT !.data = [d EXCEPT !.current_balance = VAL,
                                          !.main_consumption = VAL,
                                          !.mobile_internet_consumption = VAL,
                                          !.secondary_numbers = VAL,
                                          !.secondary_consumption = VAL]]
       ELSE IF r = "no_services"
       THEN [t EXCEPT !.data = [d EXCEPT !.current_balance = VAL,
                                          !.secondary_numbers = "None",
                                          !.secondary_consumption = "None"]]
       ELSE IF r = "empty_balance"
       THEN [t EXCEPT !.data = [d EXCEPT !.current_balance = AE,
                                          !.main_consumption = VAL,
                                          !.mobile_internet_consumption = VAL,
                                          !.secondary_numbers = VAL,
                                          !.secondary_consumption = VAL]]
       ELSE [t EXCEPT !.data = [d EXCEPT !.current_balance = VAL,
                                          !.main_consumption =
                                              IF @ = NF THEN AE ELSE @,
                                          !.secondary_numbers = "None",
                                          !.secondary_consumption = "None"]]

\* 2. expiry (scraper.py 178-212)
Stage2(t0, r) ==
    LET t == NoteExpiry(t0, r)
        d == t.data
    IN IF FetchFailed(r)
       THEN [t EXCEPT !.errors = Append(@, "Expiry API Fetch Error"),
                      !.data = [d EXCEPT !.validity_days_remaining = AE]]
       ELSE IF r = "days"
       THEN [t EXCEPT !.data = [d EXCEPT !.validity_days_remaining = VAL]]
       ELSE [t EXCEPT !.data = [d EXCEPT !.validity_days_remaining = AE]]

\* 3. last recharge (scraper.py 214-242)
Stage3(t0, r) ==
    LET t == NoteExpiry(t0, r)
        d == t.data
    IN IF FetchFailed(r)
       THEN [t EXCEPT !.errors = Append(@, "Recharge API Fetch Error"),
                      !.data = [d EXCEPT !.last_recharge_amount = AE,
                                          !.last_recharge_date = AE]]
       ELSE IF r = "malformed"
       THEN [t EXCEPT !.errors = Append(@, "Recharge API Parse Error"),
                      !.data = [d EXCEPT !.last_recharge_amount = AE,
                                          !.last_recharge_date = AE]]
       ELSE IF r = "ok"
       THEN [t EXCEPT !.data = [d EXCEPT !.last_recharge_amount = VAL,
                                          !.last_recharge_date = VAL]]
       ELSE [t EXCEPT !.data = [d EXCEPT !.last_recharge_amount = AE,
                                          !.last_recharge_date = VAL]]

\* scraper.py 320-325: the stage tags are joined into error_details
JoinErrors(t) ==
    IF t.errors # << >>
    THEN [t EXCEPT !.data.error_details = @ \o t.errors]
    ELSE t

\* 4. services, then the end of extract_api_data (scraper.py 244-325)
Stage4(t0, r) ==
    LET t == NoteExpiry(t0, r)
        d == t.data
    IN JoinErrors(
       IF FetchFailed(r)
       THEN [t EXCEPT !.errors = Append(@, "Services API Fetch Error"),
                      !.data = [d EXCEPT !.service_details = AE]]
       ELSE IF r = "malformed"
       THEN [t EXCEPT !.errors = Append(@, "Services API Parse Error"),
                      !.data = [d EXCEPT !.service_details = AE]]
       ELSE IF r = "ushare"
       THEN [t EXCEPT !.data = [d EXCEPT !.service_details = VAL]]
       ELSE [t EXCEPT !.data = [d EXCEPT !.service_details = "None"]])

\* 5. account page (scraper.py 399-424)
Stage5(t, r) ==
    IF r = "exception"
    THEN [t EXCEPT !.data.error_details = Append(@, "HTML Extraction Error")]
    ELSE IF r = "found"
    THEN [t EXCEPT !.data.activation_date = VAL]
    ELSE t

\* 6. manage-services page (scraper.py 332-393)
Stage6(t, r) ==
    IF r = "exception"
    THEN [t EXCEPT !.data.error_details =
                       Append(@, "Manage-Services Extraction Error")]
    ELSE IF r = "both"
    THEN [t EXCEPT !.data.subscription_date = VAL, !.data.validity_date = VAL]
    ELSE IF r = "one"
    THEN [t EXCEPT !.data.subscription_date = VAL]
    ELSE t

HasSentinel_OnlyApiError(d) == \E f \in DataFields : d[f] = AE

\* scraper.py 453-455
HasSentinel(d) == \E f \in DataFields : d[f] = AE \/ d[f] = NF

DefaultDetails_Missing(details) == details

\* scraper.py 458-459
DefaultDetails(details) ==
    IF details = << >> THEN <<"Some data could not be retrieved">> ELSE details

\* scraper.py 452-462: the final status
FinalStatus(d) ==
    IF HasSentinel(d)
    THEN [d EXCEPT !.status = "Partial Success",
                   !.error_details = DefaultDetails(@)]
    ELSE [d EXCEPT !.status = "Success", !.error_details = << >>]

Unhandled_NoMessage(d, msg) ==
    [d EXCEPT !.status = "Error",
              !.error_details = <<"Unknown processing error occurred">>]

\* scraper.py 464-470: the record of a pipeline that raised
Unhandled(d, msg) ==
    [d EXCEPT !.status = "Error",
              !.error_details = <<"Unhandled Exception: " \o msg>>]

(* ------------------- process_account as a coroutine -------------------- *)
RunPassword == "p1"
\* outcomes of the login during a run
RunLoginOutcomes == {"ok", "Invalid credentials"}

Register(regs, u, info) ==
    [v \in (DOMAIN regs) \cup {u} |-> IF v = u THEN info ELSE regs[v]]

Invalidate(regs, u) == MarkInvalid(regs, u)

NoteInvalidated(regs, u) ==
    IF u \in DOMAIN regs THEN [invalidated EXCEPT ![u] = regs[u].client]
    ELSE invalidated

\* positions (in accounts) of the batch being gathered, or of the account
\* process_accounts_sequential is awaiting
CurrentBatch ==
    IF runPc \in {"gather", "seq_await"}
    THEN {batches[batchNum][k] : k \in 1..Len(batches[batchNum])}
    ELSE {}

\* asyncio runs the first step of every gathered coroutine, in order, before
\* any timer callback, and timer callbacks in the order of their deadlines
MayStart(i) ==
    /\ i \in CurrentBatch
    /\ loop = 0
    /\ task[i].pc = "ready"
    /\ \A j \in CurrentBatch : j < i => task[j].pc # "ready"

\* a sleep that never returns
MayResume_NeverWakes(i) == FALSE

MayResume(i) ==
    /\ i \in CurrentBatch
    /\ loop = 0
    /\ task[i].pc = "sleeping"
    /\ \A j \in CurrentBatch : task[j].pc # "ready"
    /\ \A j \in CurrentBatch : j < i => task[j].pc # "sleeping"

runFrame == <<now, max_age, max_idle, lock, pc, args, client, ret, overlapped,
              hpc, tpc, activeTask, reply, call, admitted>>
smThreads == <<runFrame, userSession, reported>>
smFrame == <<smThreads, csv, events>>
orchFrame == <<accounts, cfgBatchSize, portal, runPc, batches, batchNum,
               batchResults, deliverIdx, results, processedCount,
               allBatchResults, saved, runError, batchesStarted, delays, futures>>

\* scraper.py 431-446, session found: the coroutine goes on without suspending
TaskStartReuse(i) ==
    /\ MayStart(i)
    /\ LET u == accounts[i]
           cleaned == CleanupSessions(sessions, now)
       IN /\ u \in DOMAIN cleaned
          /\ CanReuse(cleaned[u], now, RunPassword)
          /\ sessions' = [cleaned EXCEPT ![u].last_used = now]
          /\ lastEvicted' = ToRemove(sessions, now)
          /\ invalidated' = [invalidated EXCEPT ![u] = 0]
          /\ task' = [task EXCEPT ![i].pc = "stage1",
                                  ![i].client = cleaned[u].client]
          /\ loop' = i
    /\ UNCHANGED <<nextClient>>
    /\ UNCHANGED smFrame
    /\ UNCHANGED orchFrame

\* scraper.py 431-446 and 464-475, no usable session: login; the coroutine
\* suspends in asyncio.sleep after a successful login, and ends with an Error
\* record after a failed one.  `escapes` is an exception raised by the except
\* block itself, which leaves the coroutine.
TaskStartLogin(i, outcome, escapes) ==
    /\ MayStart(i)
    /\ LET u == accounts[i]
           cleaned == CleanupSessions(sessions, now)
           dropped == Remove(cleaned, {u})
           msg == "Login failed: " \o outcome
       IN /\ ~(u \in DOMAIN cleaned /\ CanReuse(cleaned[u], now, RunPassword))
          /\ lastEvicted' = ToRemove(sessions, now)
          /\ nextClient' = nextClient + 1
          /\ invalidated' = [invalidated EXCEPT ![u] = 0]
          /\ IF outcome = "ok"
             THEN /\ ~escapes
                  /\ sessions' = Register(dropped, u,
                                     SessionInfo(nextClient, u, RunPassword, now))
                  /\ task' = [task EXCEPT ![i].pc = "sleeping",
                                          ![i].client = nextClient]
             ELSE /\ sessions' = Invalidate(dropped, u)
                  /\ task' = [task EXCEPT
                                 ![i].pc = "done",
                                 ![i].data = Unhandled(@, msg),
                                 ![i].trace = Append(@, "invalidate"),
                                 ![i].raised = IF escapes THEN "MemoryError" ELSE ""]
    /\ UNCHANGED loop
    /\ UNCHANGED smFrame
    /\ UNCHANGED orchFrame

\* the event loop resumes the coroutine after asyncio.sleep(0.02)
TaskResume(i) ==
    /\ MayResume(i)
    /\ task' = [task EXCEPT ![i].pc = "stage1"]
    /\ loop' = i
    /\ UNCHANGED <<sessions, nextClient, invalidated, lastEvicted>>
    /\ UNCHANGED smFrame
    /\ UNCHANGED orchFrame

TaskModes == IF portal = "any" THEN {"any"} ELSE UniformModes

\* a consumption call whose failure escapes to the handler of process_account
TaskStage1_AbortsOnFailure(i, m, r) ==
    /\ loop = i
    /\ task[i].pc = "stage1"
    /\ m \in TaskModes
    /\ r \in Allowed(1, m)
    /\ IF FetchFailed(r)
       THEN /\ task' = [task EXCEPT ![i] = [Stage1(@, r) EXCEPT
                                               !.pc = "done", !.mode = m,
                                               !.data = FinalStatus(@),
                                               !.trace = Append(@, "consumption")]]
            /\ loop' = 0
       ELSE /\ task' = [task EXCEPT ![i] = [Stage1(@, r) EXCEPT
                                               !.pc = "stage2", !.mode = m,
                                               !.trace = Append(@, "consumption")]]
            /\ UNCHANGED loop
    /\ UNCHANGED <<sessions, nextClient, invalidated, lastEvicted>>
    /\ UNCHANGED smFrame
    /\ UNCHANGED orchFrame

TaskStage1(i, m, r) ==
    /\ loop = i
    /\ task[i].pc = "stage1"
    /\ m \in TaskModes
    /\ r \in Allowed(1, m)
    /\ task' = [task EXCEPT ![i] = [Stage1(@, r) EXCEPT
                                       !.pc = "stage2", !.mode = m,
                                       !.trace = Append(@, "consumption")]]
    /\ UNCHANGED <<sessions, nextClient, invalidated, lastEvicted, loop>>
    /\ UNCHANGED smFrame
    /\ UNCHANGED orchFrame

TaskStage2(i, r) ==
    /\ loop = i
    /\ task[i].pc = "stage2"
    /\ r \in Allowed(2, task[i].mode)
    /\ task' = [task EXCEPT ![i] = [Stage2(@, r) EXCEPT
                                       !.pc = "stage3",
                                       !.trace = Append(@, "expiry")]]
    /\ UNCHANGED <<sessions, nextClient, invalidated, lastEvicted, loop>>
    /\ UNCHANGED smFrame
    /\ UNCHANGED orchFrame

TaskStage3(i, r) ==
    /\ loop = i
    /\ task[i].pc = "stage3"
    /\ r \in Allowed(3, task[i].mode)
    /\ task' = [task EXCEPT ![i] = [Stage3(@, r) EXCEPT
                                       !.pc = "stage4",
                                       !.trace = Append(@, "recharge")]]
    /\ UNCHANGED <<sessions, nextClient, invalidated, lastEvicted, loop>>
    /\ UNCHANGED smFrame
    /\ UNCHANGED orchFrame

\* stage 4 and the end of extract_api_data (scraper.py 244-330)
TaskStage4(i, r) ==
    /\ loop = i
    /\ task[i].pc = "stage4"
    /\ r \in Allowed(4, task[i].mode)
    /\ LET t == Stage4(task[i], r)
           u == accounts[i]
       IN /\ task' = [task EXCEPT ![i] =
                         [t EXCEPT !.pc = "stage5",
                                   !.trace = IF t.session_expired
                                             THEN @ \o <<"services", "invalidate">>
                                             ELSE Append(@, "services")]]
          /\ IF t.session_expired
             THEN /\ sessions' = Invalidate(sessions, u)
                  /\ invalidated' = NoteInvalidated(sessions, u)
             ELSE UNCHANGED <<sessions, invalidated>>
    /\ UNCHANGED <<nextClient, lastEvicted, loop>>
    /\ UNCHANGED smFrame
    /\ UNCHANGED orchFrame

TaskStage5(i, r) ==
    /\ loop = i
    /\ task[i].pc = "stage5"
    /\ r \in Allowed(5, task[i].mode)
    /\ task' = [task EXCEPT ![i] = [Stage5(@, r) EXCEPT
                                       !.pc = "stage6",
                                       !.trace = Append(@, "account_page")]]
    /\ UNCHANGED <<sessions, nextClient, invalidated, lastEvicted, loop>>
    /\ UNCHANGED smFrame
    /\ UNCHANGED orchFrame

\* stage 6 and the final status (scraper.py 427, 452-462, 475)
TaskStage6(i, r) ==
    /\ loop = i
    /\ task[i].pc = "stage6"
    /\ r \in Allowed(6, task[i].mode)
    /\ task' = [task EXCEPT ![i] = [Stage6(@, r) EXCEPT
                                       !.pc = "done",
                                       !.data = FinalStatus(@),
                                       !.trace = Append(@, "manage_services")]]
    /\ loop' = 0
    /\ UNCHANGED <<sessions, nextClient, invalidated, lastEvicted>>
    /\ UNCHANGED smFrame
    /\ UNCHANGED orchFrame

(* ------------- process_accounts_batch / process_batch_concurrent -------- *)
\* BotConfig.MAX_CONCURRENT_WORKERS, at the scale of the model's batch sizes
MAX_CONCURRENT_WORKERS == 1

Min(a, b) == IF a < b THEN a ELSE b

RECURSIVE RangeFrom(_, _, _)
\* range(i, n, step)
RangeFrom(i, n, step) ==
    IF i >= n THEN << >> ELSE <<i>> \o RangeFrom(i + step, n, step)

\* positions of accounts[i:i + size] in a list of n accounts
Slice(i, size, n) == [k \in 1..(Min(i + size, n) - i) |-> i + k]

MakeBatches_Overlapping(n, size) ==
    LET starts == RangeFrom(0, n, 1)
    IN [k \in 1..Len(starts) |-> Slice(starts[k], size, n)]

\* [accounts[i:i + batch_size] for i in range(0, total_accounts, batch_size)]
MakeBatches(n, size) ==
    LET starts == RangeFrom(0, n, size)
    IN [k \in 1..Len(starts) |-> Slice(starts[k], size, n)]

taskFrame == <<task, loop, sessions, nextClient, invalidated, lastEvicted>>

\* telegram_bot.py 613-642 and 698-702: the request is opened, then the
\* batches are cut; range() rejects a zero step, and the except block of
\* 672-693 reports the failure
RunStart ==
    /\ runPc = "start"
    /\ LET total == Len(accounts)
           size == Min(cfgBatchSize, total)
           opened == StartProcessingRequest(userSession)
       IN IF size = 0
          THEN /\ runPc' = "failed"
               /\ runError' = "range() arg 3 must not be zero"
               /\ userSession' = CompleteProcessingRequest(opened, now)
               /\ reported' = [reported EXCEPT ![RunRequest] =
                                   Completion(Opened(@), "failed")]
               /\ UNCHANGED <<batches, batchNum>>
          ELSE /\ batches' = MakeBatches(total, size)
               /\ batchNum' = 1
               /\ runPc' = "batch"
               /\ userSession' = opened
               /\ reported' = [reported EXCEPT ![RunRequest] = Opened(@)]
               /\ UNCHANGED runError
    /\ UNCHANGED <<accounts, cfgBatchSize, portal, batchResults, deliverIdx,
                   results, processedCount, allBatchResults, saved,
                   batchesStarted, delays, futures>>
    /\ UNCHANGED taskFrame
    /\ UNCHANGED <<runFrame, csv, events>>

\* telegram_bot.py 715-723, 753-758: one coroutine per account of the batch
BatchLaunch ==
    /\ runPc = "batch"
    /\ LET members == {batches[batchNum][k] : k \in 1..Len(batches[batchNum])}
       IN task' = [i \in DOMAIN task |->
                      IF i \in members THEN [task[i] EXCEPT !.pc = "ready"]
                      ELSE task[i]]
    /\ batchesStarted' = batchesStarted + 1
    /\ runPc' = "gather"
    /\ UNCHANGED <<accounts, cfgBatchSize, portal, batches, batchNum,
                   batchResults, deliverIdx, results, processedCount,
                   allBatchResults, saved, runError, delays, futures>>
    /\ UNCHANGED <<loop, sessions, nextClient, invalidated, lastEvicted>>
    /\ UNCHANGED smFrame

\* telegram_bot.py 760-770: an exception becomes an Error record
Collected(t) ==
    IF t.raised # ""
    THEN AccountData(t.data.username, "Error", <<"Processing failed: " \o t.raised>>)
    ELSE t.data

\* gather without return_exceptions: the first exception reaches the handler
\* of telegram_bot.py 775-783, which fails every account of the batch
BatchGather_FailFast ==
    /\ runPc = "gather"
    /\ \A i \in CurrentBatch : task[i].pc = "done"
    /\ batchResults' =
          IF \E i \in CurrentBatch : task[i].raised # ""
          THEN [k \in 1..Len(batches[batchNum]) |->
                   AccountData(accounts[batches[batchNum][k]], "Error",
                               <<"Batch processing failed">>)]
          ELSE [k \in 1..Len(batches[batchNum]) |->
                   Collected(task[batches[batchNum][k]])]
    /\ deliverIdx' = 1
    /\ runPc' = "deliver"
    /\ UNCHANGED <<accounts, cfgBatchSize, portal, batches, batchNum, results,
                   processedCount, allBatchResults, saved, runError,
                   batchesStarted, delays, futures>>
    /\ UNCHANGED taskFrame
    /\ UNCHANGED smFrame

\* telegram_bot.py 758-783: gather returns when every coroutine has finished
BatchGather ==
    /\ runPc = "gather"
    /\ \A i \in CurrentBatch : task[i].pc = "done"
    /\ batchResults' = [k \in 1..Len(batches[batchNum]) |->
                           Collected(task[batches[batchNum][k]])]
    /\ deliverIdx' = 1
    /\ runPc' = "deliver"
    /\ UNCHANGED <<accounts, cfgBatchSize, portal, batches, batchNum, results,
                   processedCount, allBatchResults, saved, runError,
                   batchesStarted, delays, futures>>
    /\ UNCHANGED taskFrame
    /\ UNCHANGED smFrame

\* a progress counter that starts at 0
AccountEvent_CountsFromZero(result, current, total) ==
    [kind |-> "account", username |-> result.username, status |-> result.status,
     current |-> current - 1, total |-> total]

\* telegram_bot.py 830-862: the "Account current/total" message of one record
AccountEvent(result, current, total) ==
    [kind |-> "account", username |-> result.username, status |-> result.status,
     current |-> current, total |-> total]

\* telegram_bot.py 726-734: one turn of `for result in batch_results`;
\* send_account_result is a network call and may raise, which the except
\* block of 672-693 reports
Deliver(sent) ==
    /\ runPc = "deliver"
    /\ LET result == batchResults[deliverIdx]
       IN /\ results' = AddResult(results, result)
          /\ processedCount' = processedCount + 1
          /\ allBatchResults' = Append(allBatchResults, result)
          /\ events' = IF sent
                        THEN Append(events, AccountEvent(result, processedCount + 1,
                                                         Len(accounts)))
                        ELSE events
    /\ IF ~sent
       THEN /\ runPc' = "failed"
            /\ runError' = "send_account_result failed"
            /\ userSession' = CompleteProcessingRequest(userSession, now)
            /\ reported' = [reported EXCEPT ![RunRequest] = Completion(@, "failed")]
            /\ UNCHANGED deliverIdx
       ELSE /\ UNCHANGED <<runError, userSession, reported>>
            /\ IF deliverIdx < Len(batchResults)
               THEN /\ deliverIdx' = deliverIdx + 1
                    /\ UNCHANGED runPc
               ELSE /\ UNCHANGED deliverIdx
                    /\ runPc' = IF batchNum < Len(batches) THEN "delay" ELSE "save"
    /\ UNCHANGED <<accounts, cfgBatchSize, portal, batches, batchNum,
                   batchResults, saved, batchesStarted, delays, futures, csv>>
    /\ UNCHANGED taskFrame
    /\ UNCHANGED runFrame

\* telegram_bot.py 734-739: asyncio.sleep(BATCH_DELAY), then the next batch
Delay ==
    /\ runPc = "delay"
    /\ delays' = delays + 1
    /\ batchNum' = batchNum + 1
    /\ runPc' = "batch"
    /\ UNCHANGED <<accounts, cfgBatchSize, portal, batches, batchResults,
                   deliverIdx, results, processedCount, allBatchResults, saved,
                   runError, batchesStarted, futures>>
    /\ UNCHANGED taskFrame
    /\ UNCHANGED smFrame

(* ------------------- write_results / send_final_results ---------------- *)
\* Python's order of the usernames of the model
UsernameOrder == [u \in Users |-> IF u = "u1" THEN 1 ELSE 2]

\* x put behind every element of the sorted list s whose key is not greater
InsertByUsername(x, s) ==
    LET k == Cardinality({j \in 1..Len(s) :
                 UsernameOrder[s[j].username] <= UsernameOrder[x.username]})
    IN SubSeq(s, 1, k) \o <<x>> \o SubSeq(s, k + 1, Len(s))

RECURSIVE SortedByUsername(_)
\* sorted(results.results, key=lambda x: x.username); sorted() is stable
SortedByUsername(xs) ==
    IF xs = << >> THEN << >>
    ELSE InsertByUsername(xs[Len(xs)], SortedByUsername(SubSeq(xs, 1, Len(xs) - 1)))

\* telegram_bot.py 883-911: the summary message of the run
SummaryEvent(pr) ==
    [kind |-> "summary", total |-> pr.total_accounts, successful |-> pr.successful,
     partial |-> pr.partial, failed |-> pr.failed]

\* telegram_bot.py 925-930: the message of the except block
ErrorNotice == [kind |-> "error_notice"]

\* how the sends of send_final_results end: both sent; the summary fails;
\* the document fails; the message of the except block fails as well
FinalOutcomes == {"sent", "no_summary", "no_document", "raised"}

\* telegram_bot.py 741-748, 644-693 and 864-930: the results are saved,
\* completion is reported, the CSV file is written and the summary is sent;
\* an exception of send_final_results reaches the except block of 672-693,
\* which reports the run a second time, as failed
Save(outcome) ==
    /\ runPc = "save"
    /\ saved' = allBatchResults
    /\ csv' = CsvFile(SortedByUsername(results.results))
    /\ events' = CASE outcome = "sent" -> Append(events, SummaryEvent(results))
                   [] outcome = "no_summary" -> Append(events, ErrorNotice)
                   [] outcome = "no_document" ->
                          events \o <<SummaryEvent(results), ErrorNotice>>
                   [] OTHER -> events
    /\ IF outcome = "raised"
       THEN /\ runPc' = "failed"
            /\ runError' = "send_final_results failed"
            /\ userSession' = CompleteProcessingRequest(
                                  CompleteProcessingRequest(userSession, now), now)
            /\ reported' = [reported EXCEPT ![RunRequest] =
                                Completion(Completion(@, "completed"), "failed")]
       ELSE /\ runPc' = "completed"
            /\ userSession' = CompleteProcessingRequest(userSession, now)
            /\ reported' = [reported EXCEPT ![RunRequest] =
                                Completion(@, "completed")]
            /\ UNCHANGED runError
    /\ UNCHANGED <<accounts, cfgBatchSize, portal, batches, batchNum,
                   batchResults, deliverIdx, results, processedCount,
                   allBatchResults, batchesStarted, delays, futures>>
    /\ UNCHANGED taskFrame
    /\ UNCHANGED runFrame

(* -------------------- process_accounts_sequential ---------------------- *)
\* telegram_bot.py 613-642 with ENABLE_BATCH_PROCESSING off, and 788-791:
\* the request is opened and the loop over the accounts begins; batches
\* holds one position per turn of `for account in accounts` and batchNum is
\* the turn
SeqStart ==
    /\ runPc = "seq_start"
    /\ userSession' = StartProcessingRequest(userSession)
    /\ reported' = [reported EXCEPT ![RunRequest] = Opened(@)]
    /\ batches' = [i \in 1..Len(accounts) |-> <<i>>]
    /\ IF accounts = << >>
       THEN /\ runPc' = "save"
            /\ UNCHANGED <<batchNum, task>>
       ELSE /\ runPc' = "seq_await"
            /\ batchNum' = 1
            /\ task' = [task EXCEPT ![1].pc = "ready"]
    /\ UNCHANGED <<accounts, cfgBatchSize, portal, batchResults, deliverIdx,
                   results, processedCount, allBatchResults, saved, runError,
                   batchesStarted, delays, futures>>
    /\ UNCHANGED <<loop, sessions, nextClient, invalidated, lastEvicted>>
    /\ UNCHANGED <<runFrame, csv, events>>

\* telegram_bot.py 805-812: the record the except block builds
SeqErrorResult(u, msg) == AccountData(u, "Error", <<"Processing failed: " \o msg>>)

\* telegram_bot.py 792-817: one turn of the loop, from the return of
\* process_account on.  The try block adds the record and sends it; if
\* process_account or the send raises, the except block adds an Error record
\* for the account and sends that one (`resent`); an exception of this
\* second send leaves the loop and reaches the except block of 672-693
SeqCollect(sent, resent) ==
    /\ runPc = "seq_await"
    /\ task[batchNum].pc = "done"
    /\ LET t == task[batchNum]
           u == accounts[batchNum]
           total == Len(accounts)
           returned == t.raised = ""
           added == IF returned THEN AddResult(results, t.data) ELSE results
           count == IF returned THEN processedCount + 1 ELSE processedCount
           kept == IF returned THEN Append(allBatchResults, t.data)
                   ELSE allBatchResults
           posted == IF returned /\ sent
                     THEN Append(events, AccountEvent(t.data, count, total))
                     ELSE events
           error_result ==
               SeqErrorResult(u, IF returned THEN "send_account_result failed"
                                 ELSE t.raised)
           caught == ~returned \/ ~sent
       IN /\ results' = IF caught THEN AddResult(added, error_result) ELSE added
          /\ processedCount' = IF caught THEN count + 1 ELSE count
          /\ allBatchResults' = IF caught THEN Append(kept, error_result) ELSE kept
          /\ events' = IF caught /\ resent
                        THEN Append(posted, AccountEvent(error_result, count + 1, total))
                        ELSE posted
          /\ IF caught /\ ~resent
             THEN /\ runPc' = "failed"
                  /\ runError' = "send_account_result failed"
                  /\ userSession' = CompleteProcessingRequest(userSession, now)
                  /\ reported' = [reported EXCEPT ![RunRequest] =
                                      Completion(@, "failed")]
                  /\ UNCHANGED <<batchNum, task>>
             ELSE /\ UNCHANGED <<runError, userSession, reported>>
                  /\ IF batchNum < total
                     THEN /\ batchNum' = batchNum + 1
                          /\ task' = [task EXCEPT ![batchNum + 1].pc = "ready"]
                          /\ UNCHANGED runPc
                     ELSE /\ runPc' = "save"
                          /\ UNCHANGED <<batchNum, task>>
    /\ UNCHANGED <<accounts, cfgBatchSize, portal, batches, batchResults,
                   deliverIdx, saved, batchesStarted, delays, futures, csv>>
    /\ UNCHANGED <<loop, sessions, nextClient, invalidated, lastEvicted>>
    /\ UNCHANGED runFrame

(* ----------------------------- scraper.main ----------------------------- *)
\* process_account is `async def`: calling it in a pool thread only builds a
\* coroutine object, which is what future.result() returns
Coroutine(u) == [coroutine |-> "process_account", account |-> u]

FutureFailed(u) ==
    AccountData(u, "Error",
        <<"Future execution failed: 'coroutine' object has no attribute 'status'">>)

\* scraper.py 498-511
MainSubmit ==
    /\ runPc = "main"
    /\ IF accounts = << >>
       THEN /\ runPc' = "exit"
            /\ UNCHANGED <<results, futures>>
       ELSE /\ results' = ProcessingResult(Len(accounts))
            /\ futures' = [i \in 1..Len(accounts) |-> "done"]
            /\ runPc' = "as_completed"
    /\ UNCHANGED <<accounts, cfgBatchSize, portal, batches, batchNum,
                   batchResults, deliverIdx, processedCount, allBatchResults,
                   saved, runError, batchesStarted, delays>>
    /\ UNCHANGED taskFrame
    /\ UNCHANGED smFrame

\* scraper.py 513-527: add_result appends its argument before it reads
\* .status, which a coroutine object does not have; the handler then adds an
\* Error record for the account
MainCollect(i) ==
    /\ runPc = "as_completed"
    /\ i \in DOMAIN futures
    /\ futures[i] = "done"
    /\ LET got == Coroutine(accounts[i])
           appended == [results EXCEPT !.results = Append(@, got)]
       IN results' = IF IsAccountData(got) THEN AddResult(results, got)
                     ELSE AddResult(appended, FutureFailed(accounts[i]))
    /\ futures' = [futures EXCEPT ![i] = "collected"]
    /\ UNCHANGED <<accounts, cfgBatchSize, portal, runPc, batches, batchNum,
                   batchResults, deliverIdx, processedCount, allBatchResults,
                   saved, runError, batchesStarted, delays>>
    /\ UNCHANGED taskFrame
    /\ UNCHANGED smFrame

\* scraper.py 529-530, 477-493: sorted() reads .username of every element
MainComplete ==
    /\ runPc = "as_completed"
    /\ \A i \in DOMAIN futures : futures[i] = "collected"
    /\ IF \A k \in 1..Len(results.results) : IsAccountData(results.results[k])
       THEN /\ saved' = results.results
            /\ csv' = CsvFile(SortedByUsername(results.results))
            /\ UNCHANGED runError
       ELSE /\ runError' = "Error writing results to CSV"
            /\ csv' = CsvFile(<< >>)
            /\ UNCHANGED saved
    /\ runPc' = "exit"
    /\ UNCHANGED <<accounts, cfgBatchSize, portal, batches, batchNum,
                   batchResults, deliverIdx, results, processedCount,
                   allBatchResults, batchesStarted, delays, futures>>
    /\ UNCHANGED taskFrame
    /\ UNCHANGED <<smThreads, events>>

(* --------------------- APIClient.make_api_request ---------------------- *)
\* NetworkConfig.RETRY_ATTEMPTS: Retry(total=RETRY_ATTEMPTS, connect=3, read=3)
RETRY_ATTEMPTS == 3

\* status_forcelist of the Retry object
STATUS_FORCELIST == {408, 429, 500, 502, 503, 504, 401, 403}

\* the HTTP statuses the portal answers with in the model
Statuses == {200, 404, 503}

\* a piece of text without a blank: a run of decimal digits, or anything else
Tok(n) == [digits |-> TRUE, value |-> n]
Word == [digits |-> FALSE, value |-> 0]

\* values of json.loads: an int, a str (its pieces between blanks), a dict with
\* the key ExpiryDateValue, and the values named by their kind alone
JsonInt(n) == [type |-> "int", value |-> n]
JsonStr(tokens) == [type |-> "str", tokens |-> tokens]
JsonObject(v) == [type |-> "dict", ExpiryDateValue |-> v]
JsonOther(t) == [type |-> t]
None == JsonOther("null")

Days == 0..MaxDays

\* the bare scalar n, "n days", {"ExpiryDateValue": n}, {"ExpiryDateValue": "n days"}
NumericPayloads(n) ==
    {JsonInt(n), JsonStr(<<Tok(n), Word>>),
     JsonObject(JsonInt(n)), JsonObject(JsonStr(<<Tok(n), Word>>))}

\* "", "soon", "in 3 days", null, 1.5, [], [1], {}, {"Other": 1},
\* {"ExpiryDateValue": "soon"}, {"ExpiryDateValue": null}
NonNumericPayloads ==
    {JsonStr(<< >>), JsonStr(<<Word>>), JsonStr(<<Word, Tok(3), Word>>), None,
     JsonOther("float"), JsonOther("empty_list"), JsonOther("list"),
     JsonOther("empty_dict"), JsonOther("dict_without_key"),
     JsonObject(JsonStr(<<Word>>)), JsonObject(None)}

Payloads == (UNION {NumericPayloads(n) : n \in Days}) \cup NonNumericPayloads

\* response bodies: a JSON text; a page with <html in its first 1000
\* characters; a page with <html further down; other text; nothing
Bodies ==
    {[kind |-> "json", value |-> v] : v \in Payloads}
    \cup {[kind |-> k, value |-> None] : k \in {"html_head", "html_late", "text", "empty"}}

\* what one attempt of the transport ends with
Responses ==
    [kind : {"response"}, status : Statuses, text_html : BOOLEAN, body : Bodies]

TransportErrors ==
    {[kind |-> k] : k \in {"connect_timeout", "read_timeout", "connection_error"}}

AttemptOutcomes == Responses \cup TransportErrors \cup {[kind |-> "unexpected"]}

\* bool(value) in Python
Truthy(v) ==
    CASE v.type = "int" -> v.value # 0
      [] v.type = "str" -> v.tokens # << >>
      [] v.type \in {"null", "empty_list", "empty_dict"} -> FALSE
      [] OTHER -> TRUE

\* utils.parse_json_safely: None for an empty or unparsable text
ParseJsonSafely(body) == IF body.kind = "json" THEN body.value ELSE None

APIResponse(success, data, error) ==
    [success |-> success, data |-> data, error |-> error]

\* a retry only from the second attempt of the call on
IsSessionExpiry_NotFirstAttempt(is_html, password, retry_count) ==
    is_html /\ password /\ retry_count >= 1

\* api_client.py 206: is_html and password and retry_count < 2
IsSessionExpiry(is_html, password, retry_count) ==
    is_html /\ password /\ retry_count < 2

\* api_client.py 200-244: what make_api_request makes of a received response
Classify(resp, password, retry_count) ==
    IF resp.status >= 400
    THEN APIResponse(FALSE, None, "Error fetching from API")
    ELSE LET is_html == resp.text_html \/ resp.body.kind = "html_head"
             parsed_data == ParseJsonSafely(resp.body)
         IN IF IsSessionExpiry(is_html, password, retry_count)
            THEN APIResponse(FALSE, None, "Session expired - HTML response received")
            ELSE IF Truthy(parsed_data)
            THEN APIResponse(TRUE, parsed_data, "")
            ELSE IF is_html
            THEN APIResponse(FALSE, None, "HTML Error: Received HTML instead of JSON")
            ELSE APIResponse(FALSE, None, "Unexpected content type")

\* api_client.py 246-259: the except clauses
Failure(o) ==
    APIResponse(FALSE, None,
        CASE o.kind = "connect_timeout" -> "Timeout fetching from API"
          [] o.kind = "unexpected" -> "Unexpected error fetching from API"
          [] OTHER -> "Error fetching from API")

\* the transport retries after any failure, whatever the budget
Retryable_Always(o) == o.kind # "unexpected"

\* api_client.py 33-43: the Retry object retries connection errors, connect
\* and read timeouts, and the statuses of status_forcelist
Retryable(o) ==
    \/ o.kind \in {"connect_timeout", "read_timeout", "connection_error"}
    \/ o.kind = "response" /\ o.status \in STATUS_FORCELIST

\* a pipeline that takes every failed call for a session expiry
ErrorNamesSession_AnyFailure(error) == error # ""

\* "session" in resp.error.lower()
ErrorNamesSession(error) == error = "Session expired - HTML response received"

\* str(x).split(' ')[0]
FirstPiece(v) ==
    CASE v.type = "int" -> Tok(v.value)
      [] v.type = "str" -> IF v.tokens = << >> THEN Word ELSE v.tokens[1]
      [] OTHER -> Word

\* a validity that is a number of days, and the "API Error" sentinel
DaysLeft(n) == [numeric |-> TRUE, value |-> n]
NoDays == [numeric |-> FALSE, value |-> 0]

\* int(days) if days.isdigit() else "API Error"
IntOrApiError(piece) == IF piece.digits THEN DaysLeft(piece.value) ELSE NoDays

\* scraper.py 192-206: the parse of a successful expiry response
ParseExpiry(data) ==
    IF data.type \in {"int", "str"} THEN IntOrApiError(FirstPiece(data))
    ELSE IF data.type = "dict" THEN IntOrApiError(FirstPiece(data.ExpiryDateValue))
    ELSE IF data.type \in {"empty_dict", "dict_without_key"}
    THEN IntOrApiError(Word)
    ELSE NoDays

\* the call make_api_request(EXPIRY, username, "Expiry Date", password=...)
NewCall(password, retry_count) ==
    [pc |-> "sending", password |-> password, retry_count |-> retry_count,
     attempts |-> 1, last |-> [kind |-> "none"],
     result |-> APIResponse(FALSE, None, ""),
     session_expired |-> FALSE, validity_days_remaining |-> NoDays,
     errors |-> << >>]

callFrame == <<smVars, orchFrame, task, loop, userSession, hpc, tpc, activeTask,
              reported, admitted,
               reply, csv, events>>

\* api_client.py 174-259: one attempt of the transport ends with outcome o;
\* the Retry object sends the request again or make_api_request returns
Attempt(o) ==
    /\ call.pc = "sending"
    /\ call' = IF Retryable(o) /\ call.attempts <= RETRY_ATTEMPTS
               THEN [call EXCEPT !.attempts = @ + 1, !.last = o]
               ELSE [call EXCEPT
                       !.pc = "returned", !.last = o,
                       !.result = IF o.kind = "response" /\ ~Retryable(o)
                                  THEN Classify(o, call.password, call.retry_count)
                                  ELSE Failure(o)]
    /\ UNCHANGED callFrame

\* scraper.py 187-212: extract_api_data reads the response of the expiry call
ExpiryStage ==
    /\ call.pc = "returned"
    /\ LET resp == call.result
       IN call' = [call EXCEPT
             !.pc = "parsed",
             !.session_expired = ~resp.success /\ ErrorNamesSession(resp.error),
             !.validity_days_remaining =
                 IF resp.success /\ resp.data # None THEN ParseExpiry(resp.data)
                 ELSE NoDays,
             !.errors = IF resp.success /\ resp.data # None THEN @
                        ELSE Append(@, "Expiry API Fetch Error")]
    /\ UNCHANGED callFrame

(* ------------- run admission: handle_message and UserManager ----------- *)
\* the run requests (text messages) one caller sends
Requests == {"r1", "r2"}

\* BotConfig.USER_RATE_LIMIT_MINUTES
USER_RATE_LIMIT_MINUTES == 2
\* BotConfig.MAX_REQUESTS_PER_USER_PER_HOUR
MAX_REQUESTS_PER_USER_PER_HOUR == 15
\* timedelta(hours=1), in minutes
HOUR_MINUTES == 60

\* the active UserSession row; last_request_time is << >> for None
UserSessionRow(found, last, count, reset) ==
    [exists |-> found, is_processing |-> FALSE, last_request_time |-> last,
     request_count_hour |-> count, hour_reset_time |-> reset]

\* user_manager.py 160-163: the time-between-requests test
TooSoon_Inclusive(us, t) ==
    /\ us.last_request_time # << >>
    /\ t - us.last_request_time[1] <= USER_RATE_LIMIT_MINUTES

TooSoon(us, t) ==
    /\ us.last_request_time # << >>
    /\ t - us.last_request_time[1] < USER_RATE_LIMIT_MINUTES

\* user_manager.py 166-171: the hourly counter starts again after an hour
HourReset(us, t) ==
    IF t - us.hour_reset_time >= HOUR_MINUTES
    THEN [us EXCEPT !.request_count_hour = 0, !.hour_reset_time = t]
    ELSE us

\* an admission test that stamps the row whenever it rejects for the rate limit
CheckUserLimits_StampsRejections(us, t) ==
    IF ~us.exists
    THEN [ok |-> FALSE, msg |-> "Session not found", row |-> us]
    ELSE IF us.is_processing
    THEN [ok |-> FALSE, msg |-> "You already have a request being processed",
          row |-> us]
    ELSE IF TooSoon(us, t)
    THEN [ok |-> FALSE, msg |-> "Please wait before making another request",
          row |-> [us EXCEPT !.last_request_time = <<t>>]]
    ELSE IF HourReset(us, t).request_count_hour >= MAX_REQUESTS_PER_USER_PER_HOUR
    THEN [ok |-> FALSE, msg |-> "Hourly request limit reached",
          row |-> HourReset(us, t)]
    ELSE [ok |-> TRUE, msg |-> "OK", row |-> HourReset(us, t)]

\* _check_user_limits: the verdict, its message and the row it leaves
CheckUserLimits(us, t) ==
    IF ~us.exists
    THEN [ok |-> FALSE, msg |-> "Session not found", row |-> us]
    ELSE IF us.is_processing
    THEN [ok |-> FALSE, msg |-> "You already have a request being processed",
          row |-> us]
    ELSE IF TooSoon(us, t)
    THEN [ok |-> FALSE, msg |-> "Please wait before making another request",
          row |-> us]
    ELSE IF HourReset(us, t).request_count_hour >= MAX_REQUESTS_PER_USER_PER_HOUR
    THEN [ok |-> FALSE, msg |-> "Hourly request limit reached",
          row |-> HourReset(us, t)]
    ELSE [ok |-> TRUE, msg |-> "OK", row |-> HourReset(us, t)]

admFrame == <<smVars, orchFrame, task, loop, csv, events, call>>

\* telegram_bot.py 455-463: a text message arrives; the authorization test
Arrive(r, authorized) ==
    /\ hpc[r] = "new"
    /\ IF authorized
       THEN /\ hpc' = [hpc EXCEPT ![r] = "check_active"]
            /\ UNCHANGED reply
       ELSE /\ hpc' = [hpc EXCEPT ![r] = "returned"]
            /\ reply' = [reply EXCEPT ![r] = "access_denied_message"]
    /\ UNCHANGED <<userSession, tpc, activeTask>>
    /\ UNCHANGED <<admFrame, reported, admitted>>

\* telegram_bot.py 465-475: the active-task test under _task_lock
CheckActive(r) ==
    /\ hpc[r] = "check_active"
    /\ IF activeTask # "none" /\ tpc[activeTask] # "done"
       THEN /\ hpc' = [hpc EXCEPT ![r] = "returned"]
            /\ reply' = [reply EXCEPT ![r] = "already_processing"]
       ELSE /\ hpc' = [hpc EXCEPT ![r] = "can_process"]
            /\ UNCHANGED reply
    /\ UNCHANGED <<userSession, tpc, activeTask>>
    /\ UNCHANGED <<admFrame, reported, admitted>>

\* telegram_bot.py 477-489 and user_manager.py 143-188, under _async_lock
CanProcessRequest(r) ==
    /\ hpc[r] = "can_process"
    /\ LET verdict == CheckUserLimits(userSession, now)
       IN /\ userSession' = verdict.row
          /\ admitted' = IF verdict.row.hour_reset_time # userSession.hour_reset_time
                          THEN 0 ELSE admitted
          /\ IF verdict.ok
             THEN /\ hpc' = [hpc EXCEPT ![r] = "parse"]
                  /\ UNCHANGED reply
             ELSE /\ hpc' = [hpc EXCEPT ![r] = "returned"]
                  /\ reply' = [reply EXCEPT ![r] = verdict.msg]
    /\ UNCHANGED <<tpc, activeTask>>
    /\ UNCHANGED <<admFrame, reported>>

\* telegram_bot.py 491-547 and 562-575: parse_message and the confirmation;
\* a ValueError or a failed reply ends the handler without a task
ParseMessage(r, outcome) ==
    /\ hpc[r] = "parse"
    /\ IF outcome = "ok"
       THEN /\ hpc' = [hpc EXCEPT ![r] = "create_task"]
            /\ reply' = [reply EXCEPT ![r] = "Processing accounts"]
       ELSE /\ hpc' = [hpc EXCEPT ![r] = "returned"]
            /\ reply' = [reply EXCEPT ![r] = outcome]
    /\ UNCHANGED <<userSession, tpc, activeTask>>
    /\ UNCHANGED <<admFrame, reported, admitted>>

\* telegram_bot.py 549-560: the task is created and registered, and finished
\* tasks are dropped from _active_tasks
CreateTask(r) ==
    /\ hpc[r] = "create_task"
    /\ tpc' = [tpc EXCEPT ![r] = "created"]
    /\ activeTask' = r
    /\ hpc' = [hpc EXCEPT ![r] = "returned"]
    /\ UNCHANGED <<userSession, reply>>
    /\ UNCHANGED <<admFrame, reported, admitted>>

\* telegram_bot.py 581 and user_manager.py 203-232: start_processing
StartProcessing(r) ==
    /\ tpc[r] = "created"
    /\ userSession' =
          IF userSession.exists
          THEN [userSession EXCEPT
                   !.is_processing = TRUE,
                   !.last_request_time = <<now>>,
                   !.request_count_hour = @ + 1]
          ELSE userSession
    /\ admitted' = IF userSession.exists THEN admitted + 1 ELSE admitted
    /\ tpc' = [tpc EXCEPT ![r] = "processing"]
    /\ UNCHANGED <<hpc, activeTask, reply>>
    /\ UNCHANGED <<admFrame, reported>>

\* how the calls of telegram_bot.py 613-630 end
BeginOutcomes == {"ok", "create_transaction raised", "start_transaction raised"}

\* telegram_bot.py 583-591 and 613-633: process_accounts creates the
\* transaction, opens the request and starts the transaction; an exception
\* of these calls is outside the try block and reaches _process_user_accounts
RunBegins(r, outcome) ==
    /\ tpc[r] = "processing"
    /\ IF outcome = "create_transaction raised"
       THEN UNCHANGED <<userSession, reported>>
       ELSE /\ userSession' = StartProcessingRequest(userSession)
            /\ reported' = [reported EXCEPT ![r] = Opened(@)]
    /\ IF outcome = "ok"
       THEN /\ tpc' = [tpc EXCEPT ![r] = "pipelines"]
            /\ UNCHANGED reply
       ELSE /\ tpc' = [tpc EXCEPT ![r] = "finishing"]
            /\ reply' = [reply EXCEPT ![r] = "Processing failed"]
    /\ UNCHANGED <<hpc, activeTask>>
    /\ UNCHANGED <<admFrame, admitted>>

\* how the try block of telegram_bot.py 636-670 ends: it returns; it raises
\* before the completion calls; it raises after them (add_processed_accounts
\* or send_final_results)
RunOutcomes == {"completed", "failed", "failed_after_completion"}

\* telegram_bot.py 583-591 and 636-693: the pipelines have run; completion is
\* reported by the try block, by the except block, or by both
RunEnds(r, outcome) ==
    /\ tpc[r] = "pipelines"
    /\ tpc' = [tpc EXCEPT ![r] = "finishing"]
    /\ CASE outcome = "completed" ->
              /\ userSession' = CompleteProcessingRequest(userSession, now)
              /\ reported' = [reported EXCEPT ![r] = Completion(@, "completed")]
              /\ UNCHANGED reply
         [] outcome = "failed" ->
              /\ userSession' = CompleteProcessingRequest(userSession, now)
              /\ reported' = [reported EXCEPT ![r] = Completion(@, "failed")]
              /\ reply' = [reply EXCEPT ![r] = "Processing failed"]
         [] OTHER ->
              /\ userSession' = CompleteProcessingRequest(
                                    CompleteProcessingRequest(userSession, now), now)
              /\ reported' = [reported EXCEPT ![r] =
                                  Completion(Completion(@, "completed"), "failed")]
              /\ reply' = [reply EXCEPT ![r] = "Processing failed"]
    /\ UNCHANGED <<hpc, activeTask>>
    /\ UNCHANGED <<admFrame, admitted>>

\* telegram_bot.py 592-594 and user_manager.py 234-262: finish_processing
FinishProcessing(r) ==
    /\ tpc[r] = "finishing"
    /\ userSession' =
          IF userSession.exists
          THEN [userSession EXCEPT !.is_processing = FALSE]
          ELSE userSession
    /\ tpc' = [tpc EXCEPT ![r] = "unregister"]
    /\ UNCHANGED <<hpc, activeTask, reply>>
    /\ UNCHANGED <<admFrame, reported, admitted>>

\* telegram_bot.py 596-599: the caller's entry of _active_tasks is deleted
Unregister(r) ==
    /\ tpc[r] = "unregister"
    /\ activeTask' = "none"
    /\ tpc' = [tpc EXCEPT ![r] = "done"]
    /\ UNCHANGED <<userSession, hpc, reply>>
    /\ UNCHANGED <<admFrame, reported, admitted>>

\* no run request has been sent
NoRequests ==
    /\ hpc = [r \in Requests |-> "new"]
    /\ tpc = [r \in Requests |-> "none"]
    /\ activeTask = "none"
    /\ reply = [r \in Requests |-> ""]
    /\ reported = [r \in Requests |-> NoReport]

\* a SessionManager whose registry holds regs, next being the next client
ManagerWith(regs, next) ==
    /\ now = 0
    /\ max_age \in {1, MaxCfg}
    /\ max_idle \in {1, MaxCfg}
    /\ sessions = regs
    /\ lock = "free"
    /\ pc = [w \in Workers |-> "idle"]
    /\ args = [w \in Workers |-> NoArgs]
    /\ client = [w \in Workers |-> 0]
    /\ ret = NoRet
    /\ nextClient = next
    /\ invalidated = [u \in Users |-> 0]
    /\ lastEvicted = {}
    /\ overlapped = [w \in Workers |-> {}]

InitManager == ManagerWith(<< >>, 1)

\* the locals of a run over the account list accts, entered at `entry`
RunFields(accts, size, answers, entry) ==
    /\ accounts = accts
    /\ cfgBatchSize = size
    /\ portal = answers
    /\ task = [i \in 1..Len(accts) |-> NewTask(accts[i])]
    /\ loop = 0
    /\ runPc = entry
    /\ batches = << >>
    /\ batchNum = 0
    /\ batchResults = << >>
    /\ deliverIdx = 0
    /\ results = ProcessingResult(Len(accts))
    /\ processedCount = 0
    /\ allBatchResults = << >>
    /\ saved = << >>
    /\ runError = ""
    /\ batchesStarted = 0
    /\ delays = 0
    /\ futures = << >>
    /\ csv = NoCsv
    /\ events = << >>

\* a run over the account list accts, with no request of the caller pending
RunOver(accts, size, answers, entry) ==
    /\ RunFields(accts, size, answers, entry)
    /\ NoRequests
    /\ call = NoCall
    /\ userSession = UserSessionRow(FALSE, << >>, 0, 0)
    /\ admitted = 0

Init ==
    /\ InitManager
    /\ RunOver(<< >>, 1, "any", "off")

\* operations on the registry that any thread may call between two acquires
Maintenance ==
    \/ \E u \in Users : InvalidateSession(u)
    \/ \E u \in Users : RemoveSession(u)
    \/ GetSessionStats
    \/ ClearAllSessions
    \/ Tick

\* one caller at a time: the registry contract of get_or_create_session
Next ==
    \/ \E u \in Users, p \in Passwords : Call("w1", u, p)
    \/ Acquire("w1")
    \/ \E o \in LoginOutcomes : LoginReturn("w1", o)
    \/ Maintenance

Spec == Init /\ [][Next]_vars

\* SessionManager() as the module-level singleton builds it: max_age > max_idle
InitDefault ==
    /\ Init
    /\ max_age = MaxCfg
    /\ max_idle = 1

\* several threads inside get_or_create_session at once
NextThreads ==
    \/ \E w \in Workers, u \in Users, p \in Passwords : Call(w, u, p)
    \/ \E w \in Workers : Acquire(w)
    \/ \E w \in Workers, o \in LoginOutcomes : LoginReturn(w, o)
    \/ Maintenance

SpecThreads == InitDefault /\ [][NextThreads]_vars

\* the account list of a run: n accounts, two usernames alternating
AccountList(n) == [i \in 1..n |-> IF i % 2 = 1 THEN "u1" ELSE "u2"]

TaskStep ==
    \/ \E i \in DOMAIN task : TaskStartReuse(i)
    \/ \E i \in DOMAIN task, o \in RunLoginOutcomes, e \in BOOLEAN :
          TaskStartLogin(i, o, e)
    \/ \E i \in DOMAIN task : TaskResume(i)
    \/ \E i \in DOMAIN task, m \in UniformModes \cup {"any"}, r \in Resp1 :
          TaskStage1(i, m, r)
    \/ \E i \in DOMAIN task, r \in Resp2 : TaskStage2(i, r)
    \/ \E i \in DOMAIN task, r \in Resp3 : TaskStage3(i, r)
    \/ \E i \in DOMAIN task, r \in Resp4 : TaskStage4(i, r)
    \/ \E i \in DOMAIN task, r \in Resp5 : TaskStage5(i, r)
    \/ \E i \in DOMAIN task, r \in Resp6 : TaskStage6(i, r)

\* one account through the bot, the portal answering each stage in any way;
\* the registry is empty or holds a session of an earlier run
InitPipeline ==
    /\ \/ ManagerWith(<< >>, 1)
       \/ ManagerWith([u \in {"u1"} |-> SessionInfo(1, u, RunPassword, 0)], 2)
    /\ max_age = MaxCfg
    /\ max_idle = 1
    /\ RunOver(<<"u1">>, 1, "any", "start")

NextPipeline ==
    \/ RunStart
    \/ BatchLaunch
    \/ TaskStep
    \/ BatchGather
    \/ \E sent \in BOOLEAN : Deliver(sent)
    \/ \E outcome \in FinalOutcomes : Save(outcome)

SpecPipeline == InitPipeline /\ [][NextPipeline]_vars

\* a run of the bot over up to MaxAccounts accounts
InitRun ==
    /\ InitManager
    /\ max_age = MaxCfg
    /\ max_idle = 1
    /\ \E n \in 0..MaxAccounts, size \in 1..MaxBatch :
          RunOver(AccountList(n), size, "uniform", "start")

NextRun ==
    \/ RunStart
    \/ BatchLaunch
    \/ TaskStep
    \/ BatchGather
    \/ \E sent \in BOOLEAN : Deliver(sent)
    \/ Delay
    \/ \E outcome \in FinalOutcomes : Save(outcome)

SpecRun == InitRun /\ [][NextRun]_vars

\* the event loop runs every coroutine that can run, and every network call
\* and every sleep returns (requests is called with timeout=REQUEST_TIMEOUT)
InitRunFair ==
    /\ InitManager
    /\ max_age = MaxCfg
    /\ max_idle = 1
    /\ \E n \in 0..MaxFairAccounts, size \in 1..MaxBatch :
          RunOver(AccountList(n), size, "uniform", "start")

SpecRunFair == InitRunFair /\ [][NextRun]_vars /\ WF_vars(NextRun)

\* a run whose account list names one account several times, so that the
\* pipelines of one batch share a username
InitRunSameUser ==
    /\ InitManager
    /\ max_age = MaxCfg
    /\ max_idle = 1
    /\ \E n \in 1..(MaxSameUser + 1) :
          RunOver([i \in 1..n |-> "u1"], MaxSameUser, "uniform", "start")

SpecRunSameUser == InitRunSameUser /\ [][NextRun]_vars

\* a run in either mode: ENABLE_BATCH_PROCESSING on (entry "start") or off
InitRunModes ==
    /\ InitManager
    /\ max_age = MaxCfg
    /\ max_idle = 1
    /\ \E n \in 0..MaxModeAccounts, size \in 1..MaxBatch,
          entry \in {"start", "seq_start"} :
          RunOver(AccountList(n), size, "uniform", entry)

NextRunModes ==
    \/ NextRun
    \/ SeqStart
    \/ \E sent \in BOOLEAN, resent \in BOOLEAN : SeqCollect(sent, resent)

SpecRunModes == InitRunModes /\ [][NextRunModes]_vars

\* a run of the command-line entry point
InitMain ==
    /\ InitManager
    /\ max_age = MaxCfg
    /\ max_idle = 1
    /\ \E n \in 0..MaxAccounts : RunOver(AccountList(n), 1, "any", "main")

NextMain ==
    \/ MainSubmit
    \/ \E i \in DOMAIN futures : MainCollect(i)
    \/ MainComplete

SpecMain == InitMain /\ [][NextMain]_vars

\* one expiry call, for any password and retry_count and any portal answers
InitRequest ==
    /\ InitManager
    /\ max_age = MaxCfg
    /\ max_idle = 1
    /\ RunFields(<< >>, 1, "any", "off")
    /\ NoRequests
    /\ userSession = UserSessionRow(FALSE, << >>, 0, 0)
    /\ admitted = 0
    /\ \E password \in BOOLEAN, retry_count \in 0..MaxRetryCount :
          call = NewCall(password, retry_count)

NextRequest ==
    \/ \E o \in AttemptOutcomes : Attempt(o)
    \/ ExpiryStage

SpecRequest == InitRequest /\ [][NextRequest]_vars

\* the rows the caller's session can hold when a request arrives at time 0:
\* none, a new one, one whose last run started a minute ago, and one with
\* the hourly quota used up or nearly so in a window about to end
SessionRows ==
    {UserSessionRow(FALSE, << >>, 0, 0),
     UserSessionRow(TRUE, << >>, 0, 0),
     UserSessionRow(TRUE, <<0 - 1>>, 1, 0 - 30),
     UserSessionRow(TRUE, <<0 - 2>>, MAX_REQUESTS_PER_USER_PER_HOUR - 1,
                    2 - HOUR_MINUTES),
     UserSessionRow(TRUE, <<0 - 2>>, MAX_REQUESTS_PER_USER_PER_HOUR,
                    2 - HOUR_MINUTES)}

ParseOutcomes == {"ok", "Invalid account number", "Unexpected error occurred"}

InitAdmission ==
    /\ InitManager
    /\ max_age = MaxCfg
    /\ max_idle = 1
    /\ RunFields(<< >>, 1, "any", "off")
    /\ NoRequests
    /\ call = NoCall
    /\ userSession \in SessionRows
    /\ admitted = userSession.request_count_hour

\* the steps of one request: its handler, then its task
RequestStep(r) ==
    \/ CheckActive(r)
    \/ CanProcessRequest(r)
    \/ \E o \in ParseOutcomes : ParseMessage(r, o)
    \/ CreateTask(r)
    \/ StartProcessing(r)
    \/ \E o \in BeginOutcomes : RunBegins(r, o)
    \/ \E o \in RunOutcomes : RunEnds(r, o)
    \/ FinishProcessing(r)
    \/ Unregister(r)

\* requests of one caller whose handlers run as concurrent coroutines
NextAdmission ==
    \/ \E r \in Requests, a \in BOOLEAN : Arrive(r, a)
    \/ \E r \in Requests : RequestStep(r)
    \/ Tick

SpecAdmission == InitAdmission /\ [][NextAdmission]_vars

\* the same, every handler and task that can take a step eventually taking it
SpecAdmissionFair ==
    /\ InitAdmission
    /\ [][NextAdmission]_vars
    /\ \A r \in Requests : WF_vars(RequestStep(r))

\* updates handled one at a time: a handler starts when none is running
HandlersIdle == \A r \in Requests : hpc[r] \in {"new", "returned"}

NextAdmissionSerial ==
    \/ \E r \in Requests, a \in BOOLEAN : HandlersIdle /\ Arrive(r, a)
    \/ \E r \in Requests : RequestStep(r)
    \/ Tick

SpecAdmissionSerial == InitAdmission /\ [][NextAdmissionSerial]_vars

SpecAdmissionSerialFair ==
    /\ InitAdmission
    /\ [][NextAdmissionSerial]_vars
    /\ \A r \in Requests : WF_vars(RequestStep(r))

(* ------------------- claims about the SessionManager ------------------- *)

\* C1: a call for a credential whose registered session is valid, has the
\* same password and is within max_age and max_idle returns that session's
\* client with is_new_session = False, builds no client and performs no login.
C1_ReuseWithinLimits ==
    [][\A w \in Workers :
          (Acquire(w) /\ Usable(sessions, args[w].username, args[w].password))
          => /\ ret' = OkRet(w, sessions[args[w].username].client, FALSE)
             /\ pc'[w] = "idle"
             /\ nextClient' = nextClient
             /\ lock' = "free"]_vars

C1_Witness ==
    \E w \in Workers, u \in DOMAIN sessions :
        /\ ret = OkRet(w, sessions[u].client, FALSE)
        /\ sessions[u].last_used > sessions[u].login_time

\* C2: the acquire that follows invalidate_session on a registered session
\* drops the entry and logs in afresh with a new client; when that login
\* succeeds it returns the new client, never the invalidated one, with
\* is_new_session = True.
C2_FreshLoginAfterInvalidate ==
    [][\A w \in Workers :
          LET u == args[w].username IN
          /\ (Acquire(w) /\ invalidated[u] # 0)
             => /\ pc'[w] = "login"
                /\ client'[w] # invalidated[u]
                /\ u \notin DOMAIN sessions'
          /\ (LoginReturn(w, "ok") /\ invalidated[u] # 0)
             => /\ ret'.caller = w
                /\ ret'.kind = "ok"
                /\ ret'.is_new
                /\ ret'.client # invalidated[u]
                /\ sessions'[u].client = ret'.client]_vars

C2_Witness ==
    \E w \in Workers :
        /\ pc[w] = "login"
        /\ invalidated[args[w].username] # 0
        /\ client[w] # invalidated[args[w].username]

\* an entry that is valid, younger than max_idle and used within max_idle
Fresh(info) ==
    /\ info.is_valid
    /\ now - info.login_time < max_idle
    /\ now - info.last_used <= max_idle

CleanupStep == GetSessionStats \/ \E w \in Workers : Acquire(w)

\* C3 as stated: for every configuration, _cleanup_sessions never removes
\* an entry that is valid, younger than max_idle and used within max_idle.
C3_NeverEvictsFresh ==
    [][CleanupStep =>
          \A u \in DOMAIN sessions : Fresh(sessions[u]) => u \notin lastEvicted']_vars

\* C3 amended: the same, for configurations with max_age >= max_idle.
C3_NeverEvictsFreshWhenAgeCoversIdle ==
    [][(CleanupStep /\ max_age >= max_idle) =>
          \A u \in DOMAIN sessions : Fresh(sessions[u]) => u \notin lastEvicted']_vars

C3_Witness ==
    /\ max_age >= max_idle
    /\ lastEvicted # {}
    /\ \E u \in DOMAIN sessions : Fresh(sessions[u]) /\ sessions[u].login_time > 0

\* C4 as stated: of the workers whose calls with the same credential
\* overlapped while no usable entry existed, exactly one logs in: a caller that
\* obtains the lock after an overlapping caller has finished does not log in
\* again and holds the registered session.
C4_ExactlyOneLogin ==
    [][\A w \in Workers : \A v \in overlapped[w] :
          (Acquire(w) /\ pc[v] = "idle")
          => /\ pc'[w] = "idle"
             /\ ret' = OkRet(w, sessions'[args[w].username].client, FALSE)]_vars

\* C4 amended: logins for one username never overlap, and a caller that
\* obtains the lock after an overlapping caller has finished returns the
\* registered client without logging in, provided the entry is still usable
\* (the other login succeeded and the entry is valid, has the same password
\* and is within max_age and max_idle).
C4_NoRacingLogins ==
    [][/\ \A w, v \in Workers :
             (w # v /\ pc'[w] = "login" /\ pc'[v] = "login")
             => args'[w].username # args'[v].username
       /\ \A w \in Workers : \A v \in overlapped[w] :
             (/\ Acquire(w)
              /\ pc[v] = "idle"
              /\ Usable(sessions, args[w].username, args[w].password))
             => /\ pc'[w] = "idle"
                /\ ret' = OkRet(w, sessions[args[w].username].client, FALSE)
                /\ nextClient' = nextClient]_vars

C4_Witness ==
    \E w \in Workers : \E u \in DOMAIN sessions :
        /\ overlapped[w] # {}
        /\ \A v \in overlapped[w] \cup {w} : pc[v] = "idle"
        /\ ret = OkRet(w, sessions[u].client, FALSE)

\* C5: the registry lock is not held while a login is in progress, so that
\* logins for different usernames can be in progress together.
C5_LoginOutsideLock ==
    \A w \in Workers : pc[w] = "login" => lock # w

\* C6: a failed login makes the call raise "Login failed: <reason>", registers
\* nothing and leaves no entry for that username; the call leaves every other
\* username's valid, unexpired, non-idle entry untouched.
C6_FailedLogin ==
    [][\A w \in Workers :
          LET u == args[w].username IN
          /\ \A o \in LoginErrors :
                LoginReturn(w, o)
                => /\ ret'.caller = w
                   /\ ret'.kind = "raise"
                   /\ ret'.error = "Login failed: " \o o
                   /\ u \notin DOMAIN sessions'
                   /\ \A v \in DOMAIN sessions : v \in DOMAIN sessions' /\ sessions'[v] = sessions[v]
          /\ Acquire(w)
             => \A v \in (DOMAIN sessions) \ {u} :
                   (/\ sessions[v].is_valid
                    /\ ~IsExpired(sessions[v], now, max_age)
                    /\ ~IsIdle(sessions[v], now, max_idle))
                   => v \in DOMAIN sessions' /\ sessions'[v] = sessions[v]]_vars

C6_Witness ==
    /\ ret.kind = "raise"
    /\ ret.error = "Login failed: Invalid credentials"
    /\ DOMAIN sessions # {}

(* ------------- claims about the pipeline and the orchestrator ----------- *)

\* C7: every AccountData returned by process_account has status "Success"
\* exactly when none of its fields other than username, status and
\* error_details is "Not Found" or "API Error".
C7_SuccessIffNoSentinel ==
    \A i \in DOMAIN task :
        (task[i].pc = "done" /\ task[i].raised = "")
        => (task[i].data.status = "Success"
            <=> \A f \in DataFields :
                   task[i].data[f] # "Not Found" /\ task[i].data[f] # "API Error")

C7_Witness ==
    \E i \in DOMAIN task :
        /\ task[i].pc = "done"
        /\ task[i].data.status = "Success"
        /\ task[i].data.activation_date = VAL

\* the AccountData records handed off so far: returned by a coroutine, built
\* by the orchestrator, appended to the ProcessingResult or saved
HandedOff ==
    {task[i].data : i \in {j \in DOMAIN task : task[j].pc = "done" /\ task[j].raised = ""}}
    \cup {batchResults[k] : k \in 1..Len(batchResults)}
    \cup {results.results[k] : k \in {j \in 1..Len(results.results) :
                                          IsAccountData(results.results[j])}}
    \cup {saved[k] : k \in 1..Len(saved)}

\* C8: every AccountData handed off with status "Partial Success" or "Error"
\* has a non-empty error_details.
C8_ErrorDetailsPresent ==
    \A d \in HandedOff :
        d.status \in {"Partial Success", "Error"} => d.error_details # << >>

C8_Witness ==
    \E d \in HandedOff :
        /\ d.status = "Partial Success"
        /\ d.error_details = <<"Some data could not be retrieved">>

\* number of positions of list xs that hold an AccountData of username u
RecordsOf(xs, u) ==
    Cardinality({k \in 1..Len(xs) : IsAccountData(xs[k]) /\ xs[k].username = u})

Submitted(u) == Cardinality({i \in 1..Len(accounts) : accounts[i] = u})

\* C9: a run over N accounts that has ended normally holds exactly N records
\* in its ProcessingResult, one per submitted account.
C9_OneRecordPerAccount ==
    runPc \in {"completed", "exit"}
    => /\ Len(results.results) = Len(accounts)
       /\ \A u \in Users : RecordsOf(results.results, u) = Submitted(u)

\* C9 for the bot alone
C9_BotOneRecordPerAccount ==
    runPc = "completed"
    => /\ Len(results.results) = Len(accounts)
       /\ \A k \in 1..Len(accounts) : results.results[k].username = accounts[k]

\* the batch that position i of the account list belongs to
BatchOf(i) == ((i - 1) \div Min(cfgBatchSize, Len(accounts))) + 1

\* C10: for N >= 1 accounts and batch size b a run makes ceil(N / min(b, N))
\* calls of process_batch_concurrent, no coroutine of a batch starts before
\* every coroutine of the earlier batches has finished, and the inter-batch
\* delay is slept once after each batch except the last.
C10_BatchesAndDelays ==
    Len(accounts) >= 1
    => LET n == Len(accounts)
           m == Min(cfgBatchSize, n)
           expected == (n + m - 1) \div m
       IN /\ runPc = "completed" => (batchesStarted = expected /\ delays = expected - 1)
          /\ batchesStarted <= expected
          /\ runPc \in {"gather", "deliver", "delay", "save", "completed", "failed"}
             => delays = batchesStarted - 1
          /\ runPc \in {"start", "batch"} => delays = batchesStarted
          /\ \A i, j \in DOMAIN task :
                (task[i].pc # "new" /\ BatchOf(j) < BatchOf(i)) => task[j].pc = "done"

C10_Witness ==
    /\ runPc = "completed"
    /\ Len(accounts) = 5
    /\ cfgBatchSize = 2
    /\ batchesStarted = 3
    /\ delays = 2

InFlight ==
    {i \in DOMAIN task :
        task[i].pc \in {"sleeping", "stage1", "stage2", "stage3", "stage4",
                        "stage5", "stage6"}}

\* C12: at every moment of a batch run at most MAX_CONCURRENT_WORKERS account
\* extraction tasks have been started and not yet finished, whatever the
\* batch size.
C12_BoundedWorkers == Cardinality(InFlight) <= MAX_CONCURRENT_WORKERS

\* C13: within a batch a task that raises neither cancels its siblings nor
\* crashes the orchestrator: the batch is collected with every task finished,
\* the failure has become an "Error" AccountData for exactly that account, and
\* every sibling's own record is kept unchanged.
C13_SiblingsIsolated ==
    /\ runPc = "deliver"
       => /\ Len(batchResults) = Len(batches[batchNum])
          /\ \A k \in 1..Len(batchResults) :
                LET i == batches[batchNum][k]
                IN /\ task[i].pc = "done"
                   /\ batchResults[k].username = accounts[i]
                   /\ IF task[i].raised # ""
                      THEN /\ batchResults[k].status = "Error"
                           /\ batchResults[k].error_details # << >>
                      ELSE batchResults[k] = task[i].data
    /\ (runPc = "failed" /\ accounts # << >>)
       => runError \in {"send_account_result failed", "send_final_results failed"}

C13_Witness ==
    /\ runPc = "deliver"
    /\ \E k, m \in 1..Len(batchResults) :
          /\ task[batches[batchNum][k]].raised # ""
          /\ batchResults[k].status = "Error"
          /\ task[batches[batchNum][m]].raised = ""
          /\ batchResults[m].status = "Success"

\* the requests of the caller whose run is in flight
RunsInFlight == {r \in Requests : tpc[r] \in {"processing", "pipelines"}}

Broken(us, t) ==
    (IF us.is_processing
     THEN {"You already have a request being processed"} ELSE {})
    \cup (IF us.last_request_time # << >>
              /\ t - us.last_request_time[1] < USER_RATE_LIMIT_MINUTES
           THEN {"Please wait before making another request"} ELSE {})
    \cup (IF t - us.hour_reset_time < HOUR_MINUTES
              /\ us.request_count_hour >= MAX_REQUESTS_PER_USER_PER_HOUR
           THEN {"Hourly request limit reached"} ELSE {})

RejectMessages ==
    {"Session not found", "You already have a request being processed",
     "Please wait before making another request", "Hourly request limit reached"}

Finishes(i) == task[i].pc # "done" /\ task'[i].pc = "done"

\* the registry holds no valid entry for username u
NoValidEntry(regs, u) == u \in DOMAIN regs => ~regs[u].is_valid

\* C16 as stated: whenever a JSON call of a pipeline received an HTML body,
\* the call was taken as session expiry and, when the pipeline finishes, the
\* registry entry of the username (if present) is marked invalid.
C16_HtmlInvalidates ==
    [][\A i \in DOMAIN task :
          (Finishes(i) /\ task'[i].html # {})
          => /\ task'[i].session_expired
             /\ NoValidEntry(sessions', accounts[i])]_vars

\* C16 amended: the same for HTML bodies received with a successful HTTP
\* status.
C16_HtmlWithOkStatusInvalidates ==
    [][\A i \in DOMAIN task :
          (Finishes(i) /\ "ok_status" \in task'[i].html)
          => /\ task'[i].session_expired
             /\ NoValidEntry(sessions', accounts[i])]_vars

C16_Witness ==
    \E i \in DOMAIN task :
        /\ task[i].pc = "done"
        /\ "ok_status" \in task[i].html
        /\ accounts[i] \in DOMAIN sessions
        /\ ~sessions[accounts[i]].is_valid

\* the step on which process_account of account i catches an exception (the
\* failed login raised by get_or_create_session) and returns its record
CatchesException(i) ==
    /\ task[i].pc = "ready"
    /\ task'[i].pc = "done"
    /\ task'[i].raised = ""

\* C17: when an unhandled exception occurs in process_account, a failed login
\* included, the returned record has status "Error" and error_details with
\* the exception message, invalidate_session has been called for the
\* username, and no valid session of it remains in the registry.
C17_ExceptionGivesErrorAndInvalidates ==
    [][\A i \in DOMAIN task :
          CatchesException(i)
          => /\ task'[i].data.status = "Error"
             /\ task'[i].data.username = accounts[i]
             /\ \E reason \in RunLoginOutcomes \ {"ok"} :
                   task'[i].data.error_details =
                       <<"Unhandled Exception: Login failed: " \o reason>>
             /\ task'[i].trace = <<"invalidate">>
             /\ NoValidEntry(sessions', accounts[i])]_vars

C17_Witness ==
    \E i \in DOMAIN task :
        /\ task[i].pc = "done"
        /\ task[i].raised = ""
        /\ task[i].trace = <<"invalidate">>
        /\ task[i].data.status = "Error"
        /\ i > 2

\* the six stages of a pipeline, in the order of the code
SixStages ==
    <<"consumption", "expiry", "recharge", "services", "account_page",
      "manage_services">>

IsStage(e) == e # "invalidate"

\* the stages a pipeline has attempted so far, in order
StagesOf(t) == SelectSeq(t.trace, IsStage)

\* C18: once a session has been acquired the six stages are attempted in the
\* fixed order in every pipeline run; a fetch failure, parse failure or
\* exception in stage k never prevents stages k+1..6.
C18_AllStagesInOrder ==
    \A i \in DOMAIN task :
        /\ StagesOf(task[i]) = SubSeq(SixStages, 1, Len(StagesOf(task[i])))
        /\ (task[i].pc = "done" /\ task[i].raised = "")
           => \/ StagesOf(task[i]) = SixStages
              \/ /\ task[i].trace = <<"invalidate">>
                 /\ task[i].data.status = "Error"

C18_Witness ==
    \E i \in DOMAIN task :
        /\ task[i].pc = "done"
        /\ StagesOf(task[i]) = SixStages
        /\ task[i].errors # << >>
        /\ task[i].errors[1] = "Consumption API Fetch Error"
        /\ task[i].data.activation_date = VAL

\* C19: a pipeline that saw a session expiry does not abort early and calls
\* invalidate_session only after all its remaining stages, through the
\* manage-services page, have finished: no stage runs after the call.
C19_InvalidateAfterLastStage ==
    \A i \in DOMAIN task :
        /\ \A k, m \in 1..Len(task[i].trace) :
              (task[i].trace[k] = "invalidate" /\ k < m)
              => ~IsStage(task[i].trace[m])
        /\ (task[i].pc = "done" /\ task[i].session_expired)
           => StagesOf(task[i]) = SixStages

\* C20: a run that fails at orchestrator level after some accounts have
\* completed reports a run-level failure with an error message to its caller,
\* and every AccountData completed before the failure is handed off with the
\* run (saved), not discarded.
C20_PartialResultsPreserved ==
    (runPc = "failed" /\ results.results # << >>)
    => /\ runError # ""
       /\ \A k \in 1..Len(results.results) :
             \E j \in 1..Len(saved) : saved[j] = results.results[k]

\* xs with the elements at positions k and m exchanged
Swapped(xs, k, m) ==
    [j \in 1..Len(xs) |-> IF j = k THEN xs[m] ELSE IF j = m THEN xs[k] ELSE xs[j]]

\* the rows are in ascending order of username
OrderedByUsername(rows) ==
    \A k \in 1..(Len(rows) - 1) :
        UsernameOrder[rows[k].username] <= UsernameOrder[rows[k + 1].username]

\* rows holds every element of xs exactly as often as xs does, and nothing else
SameRecords(rows, xs) ==
    /\ Len(rows) = Len(xs)
    /\ \A k \in 1..Len(xs) :
          Cardinality({j \in 1..Len(rows) : rows[j] = xs[k]})
          = Cardinality({j \in 1..Len(xs) : xs[j] = xs[k]})

\* C21: the rows of the final CSV file of a run that ended normally are
\* ordered by username and hold every record of the ProcessingResult exactly
\* once, so that another completion order of the same records gives the
\* same file.
C21_CsvSortedAndComplete ==
    (runPc \in {"completed", "exit"} /\ accounts # << >>)
    => /\ csv.written
       /\ SameRecords(csv.rows, results.results)
       /\ OrderedByUsername(csv.rows)
       /\ \A k, m \in 1..Len(results.results) :
             SortedByUsername(Swapped(results.results, k, m)) = csv.rows

\* the runs of the Telegram orchestrator alone: gather returns the records in
\* the order of the account list, whatever the order the coroutines finish in
C21_BotCsvSortedAndComplete ==
    runPc = "completed"
    => /\ csv.written
       /\ SameRecords(csv.rows, results.results)
       /\ OrderedByUsername(csv.rows)
       /\ csv.rows = SortedByUsername([i \in DOMAIN task |-> Collected(task[i])])

\* C22: a completed AccountData is appended to the ProcessingResult as soon as
\* its pipeline has finished, without waiting for the other pipelines of its
\* batch: a finished pipeline whose record is not appended yet has no
\* unfinished pipeline in its batch.
C22_AppendedImmediately ==
    \A i \in DOMAIN task :
        (task[i].pc = "done" /\ Len(results.results) < i /\ i \in CurrentBatch)
        => \A j \in CurrentBatch : task[j].pc = "done"

\* C24: invalidate_session(username) only sets is_valid = False on that
\* username's entry when it is present: it removes no entry, changes no
\* other username's entry, and changes nothing when the username has no entry.
C24_InvalidateFrame ==
    [][\A u \in Users :
          InvalidateSession(u)
          => /\ DOMAIN sessions' = DOMAIN sessions
             /\ \A v \in DOMAIN sessions :
                   sessions'[v] = IF v = u
                                  THEN [sessions[v] EXCEPT !.is_valid = FALSE]
                                  ELSE sessions[v]
             /\ u \notin DOMAIN sessions => sessions' = sessions]_vars

C24_Witness ==
    \E u, v \in Users :
        /\ u # v
        /\ u \in DOMAIN sessions /\ v \in DOMAIN sessions
        /\ ~sessions[u].is_valid /\ invalidated[u] = sessions[u].client
        /\ sessions[v].is_valid

\* number of records of xs whose status is in the set S
WithStatus(xs, S) ==
    Cardinality({k \in 1..Len(xs) : IsAccountData(xs[k]) /\ xs[k].status \in S})

\* C23: after any sequence of add_result calls the three counters add up to
\* the number of elements of results, and each counter is the number of
\* appended records of its status (failed: every status other than
\* "Success" and "Partial Success"); no state has an append without its
\* counter update.
C23_CountersMatchRecords ==
    /\ results.successful + results.partial + results.failed = Len(results.results)
    /\ results.successful = WithStatus(results.results, {"Success"})
    /\ results.partial = WithStatus(results.results, {"Partial Success"})
    /\ results.failed = Len(results.results)
                         - WithStatus(results.results, {"Success", "Partial Success"})

\* the first n events are the per-account events of the n records, in the
\* order of the records, with the progress counter running from 1 to n
AccountEventsInOrder(n) ==
    /\ Len(events) >= n
    /\ \A k \in 1..n :
          /\ events[k].kind = "account"
          /\ events[k].current = k
          /\ events[k].total = n
          /\ events[k].username = results.results[k].username
          /\ events[k].status = results.results[k].status

TerminalStatuses == {"Success", "Partial Success", "Error"}

\* the process_account coroutine of position i has begun to run
Started(i) == i \in DOMAIN task /\ task[i].pc \notin {"new", "ready"}

\* the coroutine of position i has ended and its record has status st
EndedWith(i, st) ==
    /\ i \in DOMAIN task
    /\ task[i].pc = "done"
    /\ Collected(task[i]).status = st

\* C26: with every network call returning or timing out, every run eventually
\* terminates, every account pipeline that was started has by then ended with
\* one terminal status, and a pipeline that has ended is not touched again
\* (none is cancelled mid-pipeline).
C26_PipelinesAndRunsTerminate ==
    /\ <>(runPc \in {"completed", "failed"})
    /\ [](runPc \in {"completed", "failed"}
          => \A i \in DOMAIN task :
                Started(i) => \E st \in TerminalStatuses : EndedWith(i, st))
    /\ [][\A i \in DOMAIN task :
             /\ Started(i) => Started(i)'
             /\ task[i].pc = "done" => task'[i] = task[i]]_vars

C26_Witness ==
    /\ runPc = "completed"
    /\ Len(accounts) = 3
    /\ EndedWith(1, "Success") /\ EndedWith(2, "Error")
    /\ EndedWith(3, "Partial Success")

\* the call has returned its APIResponse
Returned == call.pc \in {"returned", "parsed"}

\* the returned APIResponse is the session-expired error
IsExpiryResult == call.result.error = "Session expired - HTML response received"

\* Content-Type contains text/html, or <html is in the first 1000 characters
LooksHtml(o) == o.kind = "response" /\ (o.text_html \/ o.body.kind = "html_head")

\* C27 as stated: the result is session-expired exactly when the response
\* looks like HTML and the call is not on its first attempt; an HTML response
\* on the first attempt is not classified as session-expired.
C27_ExpiryNotOnFirstAttempt ==
    Returned => (IsExpiryResult <=> (LooksHtml(call.last) /\ call.retry_count >= 1))

\* C27, amended: the result is session-expired exactly when the response
\* was received with a successful HTTP status, looks like HTML, a password
\* was passed and retry_count < 2; an HTML response on the first attempt
\* (retry_count = 0) is classified as session-expired.
C27_ExpiryOnEarlyAttempts ==
    Returned => (IsExpiryResult <=> /\ LooksHtml(call.last)
                                    /\ call.last.status < 400
                                    /\ call.password
                                    /\ call.retry_count < 2)

C27_Witness ==
    /\ Returned
    /\ call.retry_count = 0
    /\ call.password
    /\ LooksHtml(call.last) /\ call.last.status = 200
    /\ call.last.body.kind = "json"
    /\ IsExpiryResult

\* the step sends the request once more
Retried == call.pc = "sending" /\ call'.attempts = call.attempts + 1

\* the attempts of a call are bounded, and a call that ends on a response
\* with an error status returns a failed result
BoundedAttempts ==
    /\ call.pc # "off" => call.attempts <= 1 + RETRY_ATTEMPTS
    /\ (Returned /\ call.last.kind = "response" /\ call.last.status >= 400)
       => ~call.result.success

NetworkErrors ==
    {"Timeout fetching from API", "Error fetching from API",
     "Unexpected error fetching from API"}

C29_PipelineKeepsSession ==
    \A i \in DOMAIN task :
        (task[i].html = {} /\ StagesOf(task[i]) # << >>)
        => /\ ~task[i].session_expired
           /\ \A k \in 1..Len(task[i].trace) : task[i].trace[k] # "invalidate"

\* the parsed response body of the call is the payload v
Answered(v) ==
    /\ call.pc = "parsed"
    /\ call.last.kind = "response"
    /\ call.last.status = 200
    /\ ~LooksHtml(call.last)
    /\ call.last.body = [kind |-> "json", value |-> v]

\* C30: for every n >= 0, 0 included, a successful expiry response whose
\* payload is the bare scalar n, the string "n days", or an object whose
\* ExpiryDateValue is n or "n days" gives validity_days_remaining = n; every
\* non-numeric payload gives "API Error".
C30_ExpiryPayloadForms ==
    /\ \A n \in Days : \A v \in NumericPayloads(n) :
          Answered(v) => call.validity_days_remaining = DaysLeft(n)
    /\ \A v \in NonNumericPayloads :
          Answered(v) => call.validity_days_remaining = NoDays

\* C30 without the bare scalar 0
C30_ExpiryPayloadFormsButZero ==
    /\ \A n \in Days : \A v \in NumericPayloads(n) \ {JsonInt(0)} :
          Answered(v) => call.validity_days_remaining = DaysLeft(n)
    /\ \A v \in NonNumericPayloads :
          Answered(v) => call.validity_days_remaining = NoDays


(* ------------------------ claims C31 to C39 ----------------------------- *)

\* the fields each of the six stages assigns (scraper.py 89-176, 192-212,
\* 228-242, 262-316, 414-415, 360-383)
StageFields(k) ==
    <<{"current_balance", "secondary_numbers", "main_consumption",
       "mobile_internet_consumption", "secondary_consumption"},
      {"validity_days_remaining"},
      {"last_recharge_amount", "last_recharge_date"},
      {"service_details"},
      {"activation_date"},
      {"subscription_date", "validity_date"}>>[k]

\* the failure tags each stage can put into error_details
StageTags(k) ==
    <<{"Consumption API Fetch Error", "Consumption API Parse Error"},
      {"Expiry API Fetch Error", "Expiry API Parse Error"},
      {"Recharge API Fetch Error", "Recharge API Parse Error"},
      {"Services API Fetch Error", "Services API Parse Error"},
      {"HTML Extraction Error"},
      {"Manage-Services Extraction Error"}>>[k]

\* stage k left one of its fields at "Not Found" or "API Error"
LeftSentinel(d, k) == \E f \in StageFields(k) : d[f] = NF \/ d[f] = AE

Tagged(d, k) ==
    \E n \in 1..Len(d.error_details) : d.error_details[n] \in StageTags(k)

\* C31: in every record returned by process_account with status "Partial
\* Success", each stage that left one of its fields at "Not Found" or "API
\* Error" has a failure tag of its own in error_details.
C31_SentinelStagesAreTagged ==
    \A i \in DOMAIN task :
        (task[i].pc = "done" /\ task[i].raised = ""
           /\ task[i].data.status = "Partial Success")
        => \A k \in 1..6 : LeftSentinel(task[i].data, k) => Tagged(task[i].data, k)

\* a weaker statement the code does satisfy: a stage whose request failed or
\* whose parse raised is tagged
C31_FailedStagesAreTagged ==
    \A i \in DOMAIN task :
        (task[i].pc = "done" /\ task[i].raised = ""
           /\ task[i].data.status = "Partial Success")
        => \A n \in 1..Len(task[i].errors) :
              \E m \in 1..Len(task[i].data.error_details) :
                 task[i].data.error_details[m] = task[i].errors[n]


\* worker w returns a client from get_or_create_session in this step
ReturnsReused(w) == Acquire(w) /\ pc'[w] = "idle"
ReturnsNew(w) == LoginReturn(w, "ok")

Rejected(r) == CanProcessRequest(r) /\ hpc'[r] = "returned"

\* C33: a rejected admission leaves the caller's rate-limit state as it was:
\* is_processing, last_request_time, request_count_hour and the hour window
\* are unchanged.
C33_RejectionChangesNothing ==
    [][\A r \in Requests :
          Rejected(r)
          => /\ userSession'.is_processing = userSession.is_processing
             /\ userSession'.last_request_time = userSession.last_request_time
             /\ userSession'.request_count_hour = userSession.request_count_hour
             /\ userSession' = userSession]_vars

\* a request rejected for the rate limit, the row still as it was found
C33_Witness ==
    \E r \in Requests :
        /\ reply[r] = "Please wait before making another request"
        /\ hpc[r] = "returned"
        /\ userSession = UserSessionRow(TRUE, <<0 - 1>>, 1, 0 - 30)


\* the handler of request r is rejected for the hourly quota in this step
QuotaRejected(r) ==
    Rejected(r) /\ reply'[r] = "Hourly request limit reached"

\* C34: the caller's hourly request count equals the number of runs admitted
\* in the current hour window, and a request is rejected for quota only
\* after the maximum number of runs was admitted in that window.
C34_CountEqualsAdmittedRuns ==
    /\ [](userSession.exists => userSession.request_count_hour = admitted)
    /\ [][\A r \in Requests :
             QuotaRejected(r) => admitted' >= MAX_REQUESTS_PER_USER_PER_HOUR]_vars

\* what the code does keep: the count never falls behind the admitted runs,
\* and start_processing itself adds exactly one
C34_CountCoversAdmittedRuns ==
    /\ [](userSession.exists => userSession.request_count_hour >= admitted)
    /\ [][\A r \in Requests :
             (StartProcessing(r) /\ userSession.exists)
             => userSession'.request_count_hour
                   = userSession.request_count_hour + 1]_vars


\* the pipelines of the run of request r are executing
PipelinesExecuting(r) == tpc[r] = "pipelines"

\* the run of request r was admitted and has not yet called finish_processing
Admitted(r) == tpc[r] \in {"processing", "pipelines", "finishing"}

\* every admitted run reaches finish_processing, which clears the flag
C35_FlagEventuallyCleared ==
    /\ \A r \in Requests : Admitted(r) ~> (tpc[r] = "unregister")
    /\ [][\A r \in Requests :
             FinishProcessing(r) => ~userSession'.is_processing]_vars

RunOverNow == runPc \in {"completed", "failed"}

\* C36: for every run, completion is reported to persistence exactly once
\* (complete_transaction and complete_processing_request once each), as
\* completed or as failed, never both and never twice.
C36_CompletionReportedOnce ==
    LET rep == reported[RunRequest]
    IN /\ Len(rep.txn) <= 1
       /\ Len(rep.req) <= 1
       /\ RunOverNow
          => /\ Len(rep.txn) = 1
             /\ Len(rep.req) = 1
             /\ rep.req[1] = (IF runPc = "failed" THEN "failed" ELSE "completed")

\* what the code does keep: a run that has ended was reported at least once,
\* the transaction and the request alike, and its last report names its end
C36_CompletionReported ==
    LET rep == reported[RunRequest]
    IN RunOverNow
       => /\ rep.txn = rep.req
          /\ Len(rep.req) >= 1
          /\ rep.req[Len(rep.req)] = (IF runPc = "failed" THEN "failed" ELSE "completed")


\* pipeline i takes a step
Acts(i) == task'[i] # task[i]

\* the entry of username u is marked invalid in this step
MarkedInvalid(u) ==
    /\ u \in DOMAIN sessions /\ u \in DOMAIN sessions'
    /\ sessions[u].is_valid /\ ~sessions'[u].is_valid
    /\ sessions'[u].client = sessions[u].client

\* C37: a pipeline's invalidate_session marks only the session instance that
\* this pipeline leased, never a newer one that another pipeline registered
\* for the username afterwards.
C37_InvalidatesOwnSessionOnly ==
    [][\A u \in Users :
          MarkedInvalid(u)
          => \E i \in DOMAIN task :
                /\ Acts(i)
                /\ accounts[i] = u
                /\ task[i].client = sessions[u].client]_vars

\* what invalidate_session does keep: it touches only the entry of the
\* pipeline's own username
C37_InvalidatesOwnUsernameOnly ==
    [][\A u \in Users :
          MarkedInvalid(u)
          => \E i \in DOMAIN task : Acts(i) /\ accounts[i] = u]_vars


\* the usernames of a list of records, in order
Usernames(xs) == [k \in 1..Len(xs) |-> xs[k].username]

IsAccountEvent(e) == e.kind = "account"

IsPrefix(xs, ys) == Len(xs) <= Len(ys) /\ xs = SubSeq(ys, 1, Len(xs))

\* C38: in batch mode and in sequential mode the records of
\* ProcessingResult.results and the per-account events follow the order of
\* the submitted account list, whatever the order in which the pipelines
\* finish; so both modes give the same sequence of usernames for one input.
C38_RecordsInSubmittedOrder ==
    LET recorded == Usernames(results.results)
        notified == Usernames(SelectSeq(events, IsAccountEvent))
    IN /\ IsPrefix(recorded, accounts)
       /\ IsPrefix(notified, accounts)
       /\ runPc = "completed" => recorded = accounts /\ notified = accounts


\* the pipeline of account i has run: it acquired a session and attempted
\* the stages, or its login failed
Executed(i) ==
    /\ task[i].pc = "done"
    /\ \/ task[i].client # 0 /\ StagesOf(task[i]) = SixStages
       \/ task[i].trace = <<"invalidate">>

\* C39: in scraper.main every loaded account's pipeline is executed by the
\* thread pool, and the record added to the ProcessingResult for it is the
\* AccountData that pipeline returned, with the pipeline's terminal status.
C39_MainExecutesPipelines ==
    \A i \in DOMAIN futures :
        futures[i] = "collected"
        => /\ Executed(i)
           /\ \E k \in 1..Len(results.results) :
                 /\ IsAccountData(results.results[k])
                 /\ results.results[k] = task[i].data
                 /\ results.results[k].status \in TerminalStatuses

====
